---- MODULE Spec2Model ----
(***************************************************************************)
(* shoemart-backend: checkout / inventory reconciliation, order lifecycle  *)
(* and review helpful votes, as a state machine over the shared database.  *)
(*                                                                         *)
(* Every request handler is an async function: it runs synchronously up to *)
(* its next `await` of a database operation, and other requests may run in *)
(* between.  One action below is one such step of one handler: the         *)
(* database operation awaited, followed by the synchronous code up to the  *)
(* next await or the response.                                             *)
(***************************************************************************)
EXTENDS Integers, Sequences, FiniteSets, TLC

VARIABLES
    products,   \* Product collection: id -> document or NoDoc
    orders,     \* Order collection: sequence of documents, _id = index
    users,      \* User collection: id -> role or NoDoc
    reviews,    \* Review collection: id -> document or NoDoc
    carts,      \* Cart collection: sequence of documents, _id = index
    req         \* request slot -> the handler invocation running in it

vars == <<products, orders, users, reviews, carts, req>>

----------------------------------------------------------------------------
(* Bounds of the model *)

MaxStock == 2       \* stock values explored: 0..MaxStock
MaxQty == 2         \* item quantities a request body carries: -1..MaxQty
MaxItems == 2       \* items per create-order request (requests run one at a time)
MaxOrders == 2      \* orders ever created (interleaved requests)
MaxSerialOrders == 1 \* orders ever created (requests run one at a time)
MaxReq == 2         \* requests in flight at the same time
MaxVersion == 5     \* review document versions (__v) explored
MaxReviews == 3     \* reviews ever created, the stored one included
MaxAmount == 2      \* pricing amounts a request body carries: -1..MaxAmount
MaxCarts == 2       \* cart documents ever created
MaxCartItems == 2   \* entries of a stored cart
MaxCartQty == 3     \* quantity of a stored cart entry
MaxCartVersion == 2 \* cart document versions (__v) explored

----------------------------------------------------------------------------
(* Values *)

NoDoc == "null"            \* null: findById found nothing / no owning user
NoToken == "none"          \* request without Authorization header

UserIds == {"u1", "a1"}
Accounts == UserIds \cup {"u2"}
Ghost == "u0"              \* id in a valid token whose user document is gone
ReviewIds == {"rv1", "rv2"}
\* the ids Review.create gives out, in order; an id is never given twice
ReviewIdSeq == <<"rv1", "rv2", "rv3", "rv4", "rv5", "rv6">>
Slots == 1..MaxReq

OrderStatuses == {"processing", "shipped", "delivered", "cancelled"}
Quantities == (-1)..MaxQty
Tokens == UserIds \cup {NoToken}

Item(p, s, q) == [product |-> p, size |-> s, quantity |-> q]

\* items a create-order body carries: every quantity but 0 for size 9 of p1,
\* one unit of its size 10, one item whose size p1 does not have and one
\* item of a product id that does not resolve
Items ==
    {Item("p1", 9, q) : q \in Quantities \ {0}}
        \cup {Item("p1", 10, 1), Item("p1", 11, 1), Item("p2", 10, 1)}

RECURSIVE SeqsUpTo(_, _)
SeqsUpTo(S, n) ==
    IF n = 0 THEN {<<>>}
    ELSE LET shorter == SeqsUpTo(S, n - 1)
         IN  shorter \cup {Append(l, x) : l \in {t \in shorter : Len(t) = n - 1}, x \in S}

ItemLists == SeqsUpTo(Items, MaxItems)

\* req.body.pricing, the four numbers Order.create stores as they come
Pricing(subtotal, shipping, tax, total) ==
    [subtotal |-> subtotal, shipping |-> shipping, tax |-> tax, total |-> total]

NoPricing == Pricing(0, 0, 0, 0)

Amounts == -1..MaxAmount
Pricings ==
    {Pricing(subtotal, shipping, tax, total) :
        subtotal \in Amounts, shipping \in Amounts, tax \in Amounts,
        total \in Amounts}

NoRes == [status |-> 0, message |-> "", available |-> 0]
Res(status, message) == [status |-> status, message |-> message, available |-> 0]

NoProduct == [id |-> NoDoc, sizeIndex |-> 0, stock |-> 0]
NoPre == [products |-> <<>>, orders |-> <<>>, reviews |-> <<>>]
NoReview == [helpfulBy |-> <<>>, helpful |-> 0, version |-> 0, op |-> ""]

\* what is left where a document was deleted (ids are not given out again)
RemovedOrder ==
    [user |-> NoDoc, items |-> <<>>, pricing |-> NoPricing,
     orderStatus |-> NoDoc, paymentStatus |-> NoDoc]

RemovedReview ==
    [product |-> NoDoc, user |-> NoDoc, rating |-> 0,
     helpful |-> 0, helpfulBy |-> <<>>, version |-> 0]

\* what Review.find({ product }) returned: how many reviews, their ratings' sum
NoFound == [count |-> 0, sum |-> 0]

RemovedCart == [user |-> NoDoc, items |-> <<>>, version |-> 0]

\* req.body of a cart request without product, size and quantity
NoItem == Item(NoDoc, 0, 0)
\* no cart document loaded yet
NoCart == [id |-> 0, items |-> <<>>, version |-> 0, op |-> "", index |-> 0]

Idle ==
    [kind |-> "none", pc |-> "idle", token |-> NoToken, body |-> "",
     id |-> 0, orderStatus |-> "", items |-> <<>>, i |-> 0, pricing |-> NoPricing,
     productId |-> NoDoc, userId |-> NoDoc, rating |-> 0, found |-> NoFound,
     product |-> NoProduct, review |-> NoReview,
     item |-> NoItem, cart |-> NoCart, pre |-> NoPre, after |-> {},
     res |-> NoRes]

----------------------------------------------------------------------------
(* Request bookkeeping *)

InFlight(r) == req[r].pc \notin {"idle", "done"}

\* the request of that kind in slot r has been answered
Answered(r, kind) == req[r].kind = kind /\ req[r].pc = "done"

\* a slot with no handler running in it
Free(r) == req[r].pc = "idle"

\* a handler is invoked; `pre` remembers the database it started from and
\* `after` the requests already answered by then (history, kept in the
\* specifications whose properties refer to it)
Begin(kind, token, in) ==
    [Idle EXCEPT !.kind = kind, !.token = token,
                 !.after = IF in.history
                           THEN {s \in Slots : req[s].pc = "done"}
                           ELSE {},
                 !.pre = IF in.history
                         THEN [products |-> products, orders |-> orders,
                               reviews |-> reviews]
                         ELSE NoPre]

\* the handler awaits its next database operation
Continue(r, rec) == req' = [req EXCEPT ![r] = rec]

\* res.status(...).json(...): the request is answered
Respond(r, rec, res) ==
    req' = [req EXCEPT ![r] = [rec EXCEPT !.pc = "done", !.res = res]]

\* a new request is taken by the lowest free slot, once the answered
\* handlers have returned
Accepts(r) ==
    /\ \A s \in Slots : req[s].pc # "done"
    /\ \A s \in 1..(r - 1) : ~Free(s)

Alone(r) == \A s \in Slots \ {r} : ~InFlight(s)

\* when slot r takes a request of some kind, by the scheduling a
\* specification explores:
\*   interleaved  requests arrive at any time and interleave at every await
\*   serial       a request arrives only while no other one is in flight
\*   overlap      as interleaved; no handler returns (used without Finish)
\*   followed     as interleaved, or in slot 2 once slot 1 is answered
\*   pair         two requests: one in slot 1, then one in slot 2
Admitted(r, kind, in) ==
    /\ Free(r)
    /\ CASE in.policy = "serial" -> Accepts(r) /\ Alone(r)
         [] in.policy = "followed" -> Accepts(r) \/ (r = 2 /\ req[1].pc = "done")
         [] in.policy = "pair" -> r = 1 \/ (r = 2 /\ req[1].pc = "done")
         [] OTHER -> Accepts(r)

\* the answered handler returns
Finish(r) ==
    /\ req[r].pc = "done"
    /\ req' = [req EXCEPT ![r] = Idle]
    /\ UNCHANGED <<products, orders, users, reviews, carts>>

----------------------------------------------------------------------------
(* Mongoose / MongoDB operations used by the handlers *)

\* Array.prototype.findIndex(s => s.size === size): first match, 0 for -1
FindIndex(sizes, size) ==
    IF \E k \in 1..Len(sizes) : sizes[k].size = size
    THEN CHOOSE k \in 1..Len(sizes) :
            /\ sizes[k].size = size
            /\ \A j \in 1..(k - 1) : sizes[j].size # size
    ELSE 0

\* a schema without the minimum: what the stock bound rests on
StockUnvalidated(stock) == TRUE

\* productSchema.sizes.stock: { type: Number, min: 0 }, validated by save()
StockValid(stock) == stock >= 0

\* product.save() after `sizes[sizeIndex].stock` was modified: validation of
\* the modified path, then $set of that path alone on the stored document
SaveFails(p) == ~StockValid(p.stock) \/ p.id \notin DOMAIN products

\* a save() that writes nothing
SaveNothing(p) == products

SaveStock(p) == [products EXCEPT ![p.id].sizes[p.sizeIndex].stock = p.stock]

\* position of the loop `for (const item of items)` after one iteration
NextItem(rec, after) ==
    IF rec.i < Len(rec.items)
    THEN [rec EXCEPT !.i = rec.i + 1, !.product = NoProduct, !.pc = "findProduct"]
    ELSE [rec EXCEPT !.i = rec.i + 1, !.product = NoProduct, !.pc = after]

----------------------------------------------------------------------------
(* POST /payment/create-order *)

CreatesInFlight ==
    Cardinality({s \in Slots : req[s].kind = "createOrder" /\ InFlight(s)})

\* a stock check that also refuses a request for exactly what is left
InsufficientOrEqual(stock, quantity) == stock <= quantity

\* the stock check of one item: stock < item.quantity
Insufficient(stock, quantity) == stock < quantity

\* the deduction of one item: stock -= item.quantity
Deduct(stock, quantity) == stock - quantity

\* a cancel that gives one unit back per item, whatever its quantity
RestoreOne(stock, quantity) == stock + 1

\* the restoration of one item on cancel: stock += item.quantity
Restore(stock, quantity) == stock + quantity

CreateOrder(r, in) ==
    /\ Admitted(r, "createOrder", in)
    /\ Len(orders) + CreatesInFlight < in.maxOrders
    /\ \E token \in in.shoppers, body \in in.bodies, items \in in.lists,
          pricing \in in.pricings :
        /\ body = "missing" => items = <<>>
        /\ LET rec == [Begin("createOrder", token, in) EXCEPT
                          !.body = body, !.items = items, !.i = 1,
                          !.pricing = pricing]
           IN  IF body = "missing"
               THEN Respond(r, rec, Res(400, "Missing required order information"))
               ELSE Continue(r, [rec EXCEPT !.pc =
                        IF items = <<>> THEN "createOrder" ELSE "findProduct"])
    /\ UNCHANGED <<products, orders, users, reviews, carts>>

CreateOrderFindProduct(r) ==
    /\ req[r].kind = "createOrder"
    /\ req[r].pc = "findProduct"
    /\ LET rec == req[r]
           item == rec.items[rec.i]
       IN  IF item.product \notin DOMAIN products
           THEN Respond(r, rec, Res(404, "Product not found"))
           ELSE LET product == products[item.product]
                    sizeIndex == FindIndex(product.sizes, item.size)
                IN  IF sizeIndex = 0
                    THEN Respond(r, rec, Res(400, "Size not available"))
                    ELSE IF Insufficient(product.sizes[sizeIndex].stock, item.quantity)
                    THEN Respond(r, rec,
                            [status |-> 400, message |-> "Insufficient stock",
                             available |-> product.sizes[sizeIndex].stock])
                    ELSE Continue(r, [rec EXCEPT
                            !.product = [id |-> item.product, sizeIndex |-> sizeIndex,
                                         stock |-> Deduct(product.sizes[sizeIndex].stock,
                                                          item.quantity)],
                            !.pc = "saveProduct"])
    /\ UNCHANGED <<products, orders, users, reviews, carts>>

CreateOrderSaveProduct(r) ==
    /\ req[r].kind = "createOrder"
    /\ req[r].pc = "saveProduct"
    /\ req[r].product.stock <= MaxStock
    /\ LET rec == req[r]
       IN  IF SaveFails(rec.product)
           THEN /\ Respond(r, rec, Res(500, "Failed to create order"))
                /\ UNCHANGED products
           ELSE /\ products' = SaveStock(rec.product)
                /\ Continue(r, NextItem(rec, "createOrder"))
    /\ UNCHANGED <<orders, users, reviews, carts>>

\* the document Order.create stores (orderStatus by schema default)
NewOrder(rec) ==
    [user |-> IF rec.token = NoToken THEN NoDoc ELSE rec.token,
     items |-> rec.items,
     pricing |-> rec.pricing,
     orderStatus |-> "processing",
     paymentStatus |-> "paid"]

CreateOrderCreate(r) ==
    /\ req[r].kind = "createOrder"
    /\ req[r].pc = "createOrder"
    /\ LET rec == req[r]
       IN  IF rec.body = "invalid"
           THEN /\ Respond(r, rec, Res(500, "Failed to create order"))
                /\ UNCHANGED orders
           ELSE /\ orders' = Append(orders, NewOrder(rec))
                /\ Respond(r, [rec EXCEPT !.id = Len(orders) + 1], Res(201, "Created"))
    /\ UNCHANGED <<products, users, reviews, carts>>

----------------------------------------------------------------------------
(* Stock restoration loop and order write shared by both cancel handlers  *)
(* (the two handlers carry the same code)                                  *)

\* Product.findById(item.product) and the lenient lookup of the size
RestoreFindProduct(r) ==
    LET rec == req[r]
        item == rec.items[rec.i]
        sizeIndex == IF item.product \in DOMAIN products
                     THEN FindIndex(products[item.product].sizes, item.size)
                     ELSE 0
    IN  IF sizeIndex # 0
        THEN Continue(r, [rec EXCEPT
                !.product = [id |-> item.product, sizeIndex |-> sizeIndex,
                             stock |-> Restore(products[item.product].sizes[sizeIndex].stock,
                                               item.quantity)],
                !.pc = "saveProduct"])
        ELSE Continue(r, NextItem(rec, "saveOrder"))

\* product.save() inside the loop; a rejected save() lands in the catch block
RestoreSaveProduct(r) ==
    LET rec == req[r]
    IN  IF SaveFails(rec.product)
        THEN /\ Respond(r, rec, Res(500, "Failed to cancel order"))
             /\ UNCHANGED products
        ELSE /\ products' = SaveStock(rec.product)
             /\ Continue(r, NextItem(rec, "saveOrder"))

\* Order.findById(id) finds a document
OrderStored(id) == id \in DOMAIN orders /\ orders[id] # RemovedOrder

\* order.orderStatus = 'cancelled'; paymentStatus = 'refunded'; order.save()
CancelledOrder(order) ==
    [order EXCEPT !.orderStatus = "cancelled", !.paymentStatus = "refunded"]

CancelSaveOrder(r) ==
    LET rec == req[r]
    IN  IF OrderStored(rec.id)
        THEN /\ orders' = [orders EXCEPT ![rec.id] = CancelledOrder(orders[rec.id])]
             /\ Respond(r, rec, Res(200, "Order cancelled"))
        ELSE \* save() of a document that was deleted meanwhile: catch block
             /\ Respond(r, rec, Res(500, "Failed to cancel order"))
             /\ UNCHANGED orders

\* the loop is entered with the items of the order document that was loaded
EnterRestore(rec, order) ==
    [rec EXCEPT !.items = order.items, !.i = 1,
                !.pc = IF order.items = <<>> THEN "saveOrder" ELSE "findProduct"]

----------------------------------------------------------------------------
(* PATCH /payment/orders/:id/cancel *)

\* an owner path that also accepts shipped orders, as the admin path does
OwnerMayCancelShipped(orderStatus) == orderStatus \in {"processing", "shipped"}

\* the status guards of the owner path
OwnerMayCancel(orderStatus) == orderStatus = "processing"

OwnerCancel(r, in) ==
    /\ Admitted(r, "ownerCancel", in)
    /\ \E token \in in.shoppers, id \in in.ids :
        LET rec == [Begin("ownerCancel", token, in) EXCEPT !.id = id]
        IN  IF token = NoToken
            THEN Respond(r, rec, Res(401, "Not authenticated"))
            ELSE Continue(r, [rec EXCEPT !.pc = "findOrder"])
    /\ UNCHANGED <<products, orders, users, reviews, carts>>

OwnerCancelFindOrder(r) ==
    /\ req[r].kind = "ownerCancel"
    /\ req[r].pc = "findOrder"
    /\ LET rec == req[r]
       IN  IF ~OrderStored(rec.id)
           THEN Respond(r, rec, Res(404, "Order not found"))
           ELSE LET order == orders[rec.id]
                IN  IF order.user = NoDoc
                    THEN \* order.user.toString() on null throws: catch block
                         Respond(r, rec, Res(500, "Failed to cancel order"))
                    ELSE IF order.user # rec.token
                    THEN Respond(r, rec, Res(403, "You can only cancel your own orders"))
                    ELSE IF order.orderStatus = "cancelled"
                    THEN Respond(r, rec, Res(400, "Order is already cancelled"))
                    ELSE IF ~OwnerMayCancel(order.orderStatus)
                    THEN Respond(r, rec, Res(400, "Please contact support"))
                    ELSE Continue(r, EnterRestore(rec, order))
    /\ UNCHANGED <<products, orders, users, reviews, carts>>

OwnerCancelFindProduct(r) ==
    /\ req[r].kind = "ownerCancel"
    /\ req[r].pc = "findProduct"
    /\ RestoreFindProduct(r)
    /\ UNCHANGED <<products, orders, users, reviews, carts>>

OwnerCancelSaveProduct(r) ==
    /\ req[r].kind = "ownerCancel"
    /\ req[r].pc = "saveProduct"
    /\ req[r].product.stock <= MaxStock
    /\ RestoreSaveProduct(r)
    /\ UNCHANGED <<orders, users, reviews, carts>>

OwnerCancelSaveOrder(r) ==
    /\ req[r].kind = "ownerCancel"
    /\ req[r].pc = "saveOrder"
    /\ CancelSaveOrder(r)
    /\ UNCHANGED <<products, users, reviews, carts>>

----------------------------------------------------------------------------
(* Admin check of the /payment/admin routes: User.findById(decoded.id) *)

\* an admin check that passes every stored user
IsUser(token) == token \in DOMAIN users

IsAdmin(token) == token \in DOMAIN users /\ users[token] = "admin"

----------------------------------------------------------------------------
(* PATCH /payment/admin/orders/:id/cancel *)

AdminCancel(r, in) ==
    /\ Admitted(r, "adminCancel", in)
    /\ \E token \in in.admins, id \in in.ids :
        LET rec == [Begin("adminCancel", token, in) EXCEPT !.id = id]
        IN  IF token = NoToken
            THEN Respond(r, rec, Res(401, "Not authenticated"))
            ELSE Continue(r, [rec EXCEPT !.pc = "findUser"])
    /\ UNCHANGED <<products, orders, users, reviews, carts>>

AdminCancelFindUser(r) ==
    /\ req[r].kind = "adminCancel"
    /\ req[r].pc = "findUser"
    /\ LET rec == req[r]
       IN  IF ~IsAdmin(rec.token)
           THEN Respond(r, rec, Res(403, "Not authorized"))
           ELSE Continue(r, [rec EXCEPT !.pc = "findOrder"])
    /\ UNCHANGED <<products, orders, users, reviews, carts>>

AdminCancelFindOrder(r) ==
    /\ req[r].kind = "adminCancel"
    /\ req[r].pc = "findOrder"
    /\ LET rec == req[r]
       IN  IF ~OrderStored(rec.id)
           THEN Respond(r, rec, Res(404, "Order not found"))
           ELSE LET order == orders[rec.id]
                IN  IF order.orderStatus = "cancelled"
                    THEN Respond(r, rec, Res(400, "Order is already cancelled"))
                    ELSE IF order.orderStatus = "delivered"
                    THEN Respond(r, rec, Res(400, "Please process a return instead"))
                    ELSE Continue(r, EnterRestore(rec, order))
    /\ UNCHANGED <<products, orders, users, reviews, carts>>

AdminCancelFindProduct(r) ==
    /\ req[r].kind = "adminCancel"
    /\ req[r].pc = "findProduct"
    /\ RestoreFindProduct(r)
    /\ UNCHANGED <<products, orders, users, reviews, carts>>

AdminCancelSaveProduct(r) ==
    /\ req[r].kind = "adminCancel"
    /\ req[r].pc = "saveProduct"
    /\ req[r].product.stock <= MaxStock
    /\ RestoreSaveProduct(r)
    /\ UNCHANGED <<orders, users, reviews, carts>>

AdminCancelSaveOrder(r) ==
    /\ req[r].kind = "adminCancel"
    /\ req[r].pc = "saveOrder"
    /\ CancelSaveOrder(r)
    /\ UNCHANGED <<products, users, reviews, carts>>

----------------------------------------------------------------------------
(* PATCH /payment/admin/orders/:id *)

\* values of req.body.orderStatus: the enum and one value outside it
StatusInputs == OrderStatuses \cup {"returned"}

AdminUpdate(r, in) ==
    /\ Admitted(r, "adminUpdate", in)
    /\ \E token \in in.admins, id \in in.ids, orderStatus \in in.statuses :
        LET rec == [Begin("adminUpdate", token, in) EXCEPT
                       !.id = id, !.orderStatus = orderStatus]
        IN  IF token = NoToken
            THEN Respond(r, rec, Res(401, "Not authenticated"))
            ELSE Continue(r, [rec EXCEPT !.pc = "findUser"])
    /\ UNCHANGED <<products, orders, users, reviews, carts>>

AdminUpdateFindUser(r) ==
    /\ req[r].kind = "adminUpdate"
    /\ req[r].pc = "findUser"
    /\ LET rec == req[r]
       IN  IF ~IsAdmin(rec.token)
           THEN Respond(r, rec, Res(403, "Not authorized"))
           ELSE Continue(r, [rec EXCEPT !.pc = "updateOrder"])
    /\ UNCHANGED <<products, orders, users, reviews, carts>>

\* an update that also refunds the order it cancels
UpdatedAndRefunded(order, orderStatus) ==
    [order EXCEPT !.orderStatus = orderStatus,
                  !.paymentStatus = IF orderStatus = "cancelled"
                                    THEN "refunded" ELSE @]

\* the update { orderStatus } applied to the stored document
UpdatedOrder(order, orderStatus) == [order EXCEPT !.orderStatus = orderStatus]

\* Order.findByIdAndUpdate(id, { orderStatus }, { new: true, runValidators: true })
AdminUpdateFindByIdAndUpdate(r) ==
    /\ req[r].kind = "adminUpdate"
    /\ req[r].pc = "updateOrder"
    /\ LET rec == req[r]
       IN  IF rec.orderStatus \notin OrderStatuses
           THEN \* enum validator rejects the update: catch block
                /\ Respond(r, rec, Res(500, "Failed to update order"))
                /\ UNCHANGED orders
           ELSE IF ~OrderStored(rec.id)
           THEN /\ Respond(r, rec, Res(404, "Order not found"))
                /\ UNCHANGED orders
           ELSE /\ orders' = [orders EXCEPT ![rec.id] = UpdatedOrder(@, rec.orderStatus)]
                /\ Respond(r, rec, Res(200, "Updated"))
    /\ UNCHANGED <<products, users, reviews, carts>>

----------------------------------------------------------------------------
(* PATCH /reviews/:id/helpful *)

\* MongooseArray.includes(userId)
Includes(helpfulBy, userId) == \E k \in 1..Len(helpfulBy) : helpfulBy[k] = userId

\* helpfulBy.filter(id => id.toString() !== userId)
Without(helpfulBy, userId) == SelectSeq(helpfulBy, LAMBDA id : id # userId)

\* Math.max(0, helpful - 1)
Unmark(helpful) == IF helpful - 1 > 0 THEN helpful - 1 ELSE 0

\* the toggle applied to the loaded document; `op` is how save() will send
\* helpfulBy: an assigned array is $set under the loaded __v, a push is
\* $push without a version condition
Toggle(review, userId) ==
    IF Includes(review.helpfulBy, userId)
    THEN [helpfulBy |-> Without(review.helpfulBy, userId),
          helpful |-> Unmark(review.helpful),
          version |-> review.version, op |-> "set"]
    ELSE [helpfulBy |-> Append(review.helpfulBy, userId),
          helpful |-> review.helpful + 1,
          version |-> review.version, op |-> "push"]

\* Review.findById(id) finds a document
ReviewStored(id) == id \in DOMAIN reviews /\ reviews[id] # RemovedReview

Helpful(r, in) ==
    /\ Admitted(r, "helpful", in)
    /\ \E token \in in.voters, id \in in.reviewIds :
        LET rec == [Begin("helpful", token, in) EXCEPT !.id = id]
        IN  IF token = NoToken
            THEN Respond(r, rec, Res(401, "Please login to mark reviews as helpful"))
            ELSE Continue(r, [rec EXCEPT !.pc = "findReview"])
    /\ UNCHANGED <<products, orders, users, reviews, carts>>

HelpfulFindReview(r) ==
    /\ req[r].kind = "helpful"
    /\ req[r].pc = "findReview"
    /\ LET rec == req[r]
       IN  IF ~ReviewStored(rec.id)
           THEN Respond(r, rec, Res(404, "Review not found"))
           ELSE Continue(r, [rec EXCEPT !.review = Toggle(reviews[rec.id], rec.token),
                                        !.pc = "saveReview"])
    /\ UNCHANGED <<products, orders, users, reviews, carts>>

\* the document after review.save() of the toggled document
SavedReview(stored, review, userId) ==
    [stored EXCEPT !.helpfulBy = IF review.op = "push"
                                 THEN Append(stored.helpfulBy, userId)
                                 ELSE review.helpfulBy,
                   !.helpful = review.helpful,
                   !.version = stored.version + 1]

\* save() finds no document to update: the review is gone, or helpfulBy
\* was assigned and the stored __v is no longer the loaded one
ReviewSaveFails(review, id) ==
    \/ ~ReviewStored(id)
    \/ review.op = "set" /\ reviews[id].version # review.version

HelpfulSave(r) ==
    /\ req[r].kind = "helpful"
    /\ req[r].pc = "saveReview"
    /\ LET rec == req[r]
       IN  IF ReviewSaveFails(rec.review, rec.id)
           THEN /\ Respond(r, rec, Res(500, "Failed to mark review as helpful"))
                /\ UNCHANGED reviews
           ELSE /\ reviews[rec.id].version < MaxVersion
                /\ reviews' = [reviews EXCEPT ![rec.id] =
                                  SavedReview(reviews[rec.id], rec.review, rec.token)]
                /\ Respond(r, rec, Res(200, "OK"))
    /\ UNCHANGED <<products, orders, users, carts>>

----------------------------------------------------------------------------
(* Review routes: authenticate, updateProductRating *)

\* the reviews Review.find({ product: productId }) returns
ReviewsOf(productId) ==
    {v \in DOMAIN reviews : reviews[v] # RemovedReview /\ reviews[v].product = productId}

RECURSIVE SumRatings(_)
\* reviews.reduce((sum, review) => sum + review.rating, 0)
SumRatings(ids) ==
    IF ids = {} THEN 0
    ELSE LET v == CHOOSE x \in ids : TRUE
         IN  reviews[v].rating + SumRatings(ids \ {v})

\* an average cut to one decimal instead of rounded
TruncTenths(sum, count) == (10 * sum) \div count

\* Math.round(averageRating * 10) / 10, in tenths: halves go up
RoundTenths(sum, count) == (20 * sum + count) \div (2 * count)

\* updateProductRating: const reviews = await Review.find({ product })
RatingFindReviews(r) ==
    LET rec == req[r]
        ids == ReviewsOf(rec.productId)
    IN  Continue(r, [rec EXCEPT !.found = [count |-> Cardinality(ids),
                                           sum |-> SumRatings(ids)],
                                !.pc = "updateProduct"])

\* the fields Product.findByIdAndUpdate sets from what was found
Rated(product, found) ==
    IF found.count = 0
    THEN [product EXCEPT !.averageRating = 0, !.totalReviews = 0]
    ELSE [product EXCEPT !.averageRating = RoundTenths(found.sum, found.count),
                         !.totalReviews = found.count]

\* updateProductRating: await Product.findByIdAndUpdate(productId, {...}),
\* which updates nothing when the product is gone; then the response
RatingUpdateProduct(r, res) ==
    LET rec == req[r]
    IN  /\ products' = IF rec.productId \in DOMAIN products
                       THEN [products EXCEPT ![rec.productId] = Rated(@, rec.found)]
                       ELSE products
        /\ Respond(r, rec, res)

\* the unique index { product: 1, user: 1 } not built
NoIndex(productId, userId) == FALSE

\* the unique index { product: 1, user: 1 } rejects the insert (E11000)
DuplicateKey(productId, userId) ==
    \E v \in ReviewsOf(productId) : reviews[v].user = userId

\* ratings the schema accepts: min 1, max 5
RatingValid(rating) == rating >= 1 /\ rating <= 5

ReviewCreatesInFlight ==
    Cardinality({s \in Slots : req[s].kind = "createReview" /\ InFlight(s)})

\* POST /reviews: authenticate and the validation of the body; a rating of
\* 0 is a body without rating
CreateReview(r, in) ==
    /\ Admitted(r, "createReview", in)
    /\ Cardinality(DOMAIN reviews) + ReviewCreatesInFlight < MaxReviews
    /\ \E token \in in.authors, productId \in in.productIds, rating \in in.ratings :
        LET rec == [Begin("createReview", token, in) EXCEPT
                       !.productId = productId, !.rating = rating]
        IN  IF token = NoToken
            THEN Respond(r, rec, Res(401, "Not authenticated"))
            ELSE IF rating = 0
            THEN Respond(r, rec, Res(400, "Please provide all required fields"))
            ELSE IF rating < 1 \/ rating > 5
            THEN Respond(r, rec, Res(400, "Rating must be between 1 and 5"))
            ELSE Continue(r, [rec EXCEPT !.pc = "findProduct"])
    /\ UNCHANGED <<products, orders, users, reviews, carts>>

CreateReviewFindProduct(r) ==
    /\ req[r].kind = "createReview"
    /\ req[r].pc = "findProduct"
    /\ LET rec == req[r]
       IN  IF rec.productId \notin DOMAIN products
           THEN Respond(r, rec, Res(404, "Product not found"))
           ELSE Continue(r, [rec EXCEPT !.pc = "findExisting"])
    /\ UNCHANGED <<products, orders, users, reviews, carts>>

\* Review.findOne({ product, user }); the Order.findOne that follows only
\* decides isVerifiedPurchase, which is not kept here
CreateReviewFindExisting(r) ==
    /\ req[r].kind = "createReview"
    /\ req[r].pc = "findExisting"
    /\ LET rec == req[r]
       IN  IF \E v \in ReviewsOf(rec.productId) : reviews[v].user = rec.token
           THEN Respond(r, rec, Res(400, "You have already reviewed this product"))
           ELSE Continue(r, [rec EXCEPT !.pc = "createReview"])
    /\ UNCHANGED <<products, orders, users, reviews, carts>>

\* the document Review.create stores
NewReview(rec) ==
    [product |-> rec.productId, user |-> rec.token, rating |-> rec.rating,
     helpful |-> 0, helpfulBy |-> <<>>, version |-> 0]

CreateReviewCreate(r) ==
    /\ req[r].kind = "createReview"
    /\ req[r].pc = "createReview"
    /\ LET rec == req[r]
           id == ReviewIdSeq[Cardinality(DOMAIN reviews) + 1]
       IN  IF DuplicateKey(rec.productId, rec.token)
           THEN /\ Respond(r, rec, Res(500, "Failed to create review"))
                /\ UNCHANGED reviews
           ELSE /\ reviews' = (id :> NewReview(rec)) @@ reviews
                /\ Continue(r, [rec EXCEPT !.id = id, !.pc = "findReviews"])
    /\ UNCHANGED <<products, orders, users, carts>>

CreateReviewFindReviews(r) ==
    /\ req[r].kind = "createReview"
    /\ req[r].pc = "findReviews"
    /\ RatingFindReviews(r)
    /\ UNCHANGED <<products, orders, users, reviews, carts>>

CreateReviewUpdateProduct(r) ==
    /\ req[r].kind = "createReview"
    /\ req[r].pc = "updateProduct"
    /\ RatingUpdateProduct(r, Res(201, "Review created successfully"))
    /\ UNCHANGED <<orders, users, reviews, carts>>

\* PUT /reviews/:id; a rating of 0 is a body without rating
UpdateReview(r, in) ==
    /\ Admitted(r, "updateReview", in)
    /\ \E token \in in.authors, id \in in.reviewIds, rating \in in.ratings :
        LET rec == [Begin("updateReview", token, in) EXCEPT !.id = id, !.rating = rating]
        IN  IF token = NoToken
            THEN Respond(r, rec, Res(401, "Not authenticated"))
            ELSE Continue(r, [rec EXCEPT !.pc = "findReview"])
    /\ UNCHANGED <<products, orders, users, reviews, carts>>

\* Review.findById, the ownership check, review.rating = rating || review.rating
UpdateReviewFindReview(r) ==
    /\ req[r].kind = "updateReview"
    /\ req[r].pc = "findReview"
    /\ LET rec == req[r]
       IN  IF ~ReviewStored(rec.id)
           THEN Respond(r, rec, Res(404, "Review not found"))
           ELSE IF reviews[rec.id].user # rec.token
           THEN Respond(r, rec, Res(403, "You can only edit your own reviews"))
           ELSE Continue(r, [rec EXCEPT
                    !.productId = reviews[rec.id].product,
                    !.rating = IF rec.rating # 0 THEN rec.rating
                               ELSE reviews[rec.id].rating,
                    !.review = [NoReview EXCEPT
                                   !.op = IF rec.rating \in {0, reviews[rec.id].rating}
                                          THEN "" ELSE "set"],
                    !.pc = "saveReview"])
    /\ UNCHANGED <<products, orders, users, reviews, carts>>

\* review.save(): nothing is sent when no path was modified; otherwise the
\* rating is validated and $set on the stored document
UpdateReviewSave(r) ==
    /\ req[r].kind = "updateReview"
    /\ req[r].pc = "saveReview"
    /\ LET rec == req[r]
       IN  IF rec.review.op = ""
           THEN /\ Continue(r, [rec EXCEPT !.pc = "findReviews"])
                /\ UNCHANGED reviews
           ELSE IF ~RatingValid(rec.rating) \/ ~ReviewStored(rec.id)
           THEN /\ Respond(r, rec, Res(500, "Failed to update review"))
                /\ UNCHANGED reviews
           ELSE /\ reviews' = [reviews EXCEPT ![rec.id].rating = rec.rating]
                /\ Continue(r, [rec EXCEPT !.pc = "findReviews"])
    /\ UNCHANGED <<products, orders, users, carts>>

UpdateReviewFindReviews(r) ==
    /\ req[r].kind = "updateReview"
    /\ req[r].pc = "findReviews"
    /\ RatingFindReviews(r)
    /\ UNCHANGED <<products, orders, users, reviews, carts>>

UpdateReviewUpdateProduct(r) ==
    /\ req[r].kind = "updateReview"
    /\ req[r].pc = "updateProduct"
    /\ RatingUpdateProduct(r, Res(200, "Review updated successfully"))
    /\ UNCHANGED <<orders, users, reviews, carts>>

\* DELETE /reviews/:id
DeleteReview(r, in) ==
    /\ Admitted(r, "deleteReview", in)
    /\ \E token \in in.authors, id \in in.reviewIds :
        LET rec == [Begin("deleteReview", token, in) EXCEPT !.id = id]
        IN  IF token = NoToken
            THEN Respond(r, rec, Res(401, "Not authenticated"))
            ELSE Continue(r, [rec EXCEPT !.pc = "findReview"])
    /\ UNCHANGED <<products, orders, users, reviews, carts>>

DeleteReviewFindReview(r) ==
    /\ req[r].kind = "deleteReview"
    /\ req[r].pc = "findReview"
    /\ LET rec == req[r]
       IN  IF ~ReviewStored(rec.id)
           THEN Respond(r, rec, Res(404, "Review not found"))
           ELSE IF reviews[rec.id].user # rec.token
           THEN Respond(r, rec, Res(403, "You can only delete your own reviews"))
           ELSE Continue(r, [rec EXCEPT !.productId = reviews[rec.id].product,
                                        !.pc = "deleteReview"])
    /\ UNCHANGED <<products, orders, users, reviews, carts>>

\* Review.findByIdAndDelete(id): deletes nothing when the review is gone
DeleteReviewDelete(r) ==
    /\ req[r].kind = "deleteReview"
    /\ req[r].pc = "deleteReview"
    /\ reviews' = IF ReviewStored(req[r].id)
                  THEN [reviews EXCEPT ![req[r].id] = RemovedReview]
                  ELSE reviews
    /\ Continue(r, [req[r] EXCEPT !.pc = "findReviews"])
    /\ UNCHANGED <<products, orders, users, carts>>

DeleteReviewFindReviews(r) ==
    /\ req[r].kind = "deleteReview"
    /\ req[r].pc = "findReviews"
    /\ RatingFindReviews(r)
    /\ UNCHANGED <<products, orders, users, reviews, carts>>

DeleteReviewUpdateProduct(r) ==
    /\ req[r].kind = "deleteReview"
    /\ req[r].pc = "updateProduct"
    /\ RatingUpdateProduct(r, Res(200, "Review deleted successfully"))
    /\ UNCHANGED <<orders, users, reviews, carts>>

----------------------------------------------------------------------------
(* Product routes: POST /products, PUT /products/:id, DELETE /products/:id *)

\* the document Product.create(req.body) stores for a well-formed body
\* (averageRating and totalReviews by schema default)
NewProduct ==
    [name |-> "n2", sizes |-> <<[size |-> 9, stock |-> 1]>>,
     averageRating |-> 0, totalReviews |-> 0]

\* req.body of PUT as the update findByIdAndUpdate applies
Edited(product, body) ==
    CASE body = "name" -> [product EXCEPT !.name = "n2"]
      [] body = "sizes" -> [product EXCEPT !.sizes = <<[size |-> 10, stock |-> 1]>>]
      [] body = "soldout" -> [product EXCEPT !.sizes = <<[size |-> 10, stock |-> 0]>>]
      [] OTHER -> product

\* POST /products: Product.create(req.body), the body carrying the _id or
\* leaving it to the driver (p2 here); no caller is turned away
ProductPost(r, in) ==
    /\ Admitted(r, "productPost", in)
    /\ \E token \in in.callers, body \in in.productBodies, id \in in.newProductIds :
        LET rec == [Begin("productPost", token, in) EXCEPT !.body = body, !.productId = id]
        IN  IF body = "invalid" \/ id \in DOMAIN products
            THEN \* validation error or duplicate _id: catch block
                 /\ Respond(r, rec, Res(400, "Invalid product data"))
                 /\ UNCHANGED products
            ELSE /\ products' = (id :> NewProduct) @@ products
                 /\ Respond(r, rec, Res(201, "Created"))
    /\ UNCHANGED <<orders, users, reviews, carts>>

\* PUT /products/:id: Product.findByIdAndUpdate(id, req.body, runValidators)
ProductPut(r, in) ==
    /\ Admitted(r, "productPut", in)
    /\ \E token \in in.callers, body \in in.productBodies, id \in in.productIds :
        LET rec == [Begin("productPut", token, in) EXCEPT !.body = body, !.productId = id]
        IN  IF body = "invalid"
            THEN /\ Respond(r, rec, Res(400, "Update failed"))
                 /\ UNCHANGED products
            ELSE IF id \notin DOMAIN products
            THEN /\ Respond(r, rec, Res(404, "Product not found"))
                 /\ UNCHANGED products
            ELSE /\ products' = [products EXCEPT ![id] = Edited(@, body)]
                 /\ Respond(r, rec, Res(200, "Updated"))
    /\ UNCHANGED <<orders, users, reviews, carts>>

\* DELETE /products/:id: Product.findByIdAndDelete(id)
ProductDelete(r, in) ==
    /\ Admitted(r, "productDelete", in)
    /\ \E token \in in.callers, id \in in.productIds :
        LET rec == [Begin("productDelete", token, in) EXCEPT !.productId = id]
        IN  IF id \notin DOMAIN products
            THEN /\ Respond(r, rec, Res(404, "Product not found"))
                 /\ UNCHANGED products
            ELSE /\ products' = [q \in DOMAIN products \ {id} |-> products[q]]
                 /\ Respond(r, rec, Res(200, "Product deleted successfully"))
    /\ UNCHANGED <<orders, users, reviews, carts>>

----------------------------------------------------------------------------
(* Cart routes: GET /cart, POST /cart/add, PUT /cart/update,               *)
(* DELETE /cart/remove, DELETE /cart/clear                                 *)

CartStored(id) == id \in DOMAIN carts /\ carts[id] # RemovedCart

\* Cart.findOne({ user }): the first cart of the user, 0 for null
CartOf(userId) ==
    IF \E c \in DOMAIN carts : carts[c].user = userId
    THEN CHOOSE c \in DOMAIN carts :
            /\ carts[c].user = userId
            /\ \A d \in 1..(c - 1) : carts[d].user # userId
    ELSE 0

\* the unique index on user rejects a second cart of the same user
DuplicateUser(userId) == \E c \in DOMAIN carts : carts[c].user = userId

NewCart(userId) == [user |-> userId, items |-> <<>>, version |-> 0]

\* the cart document a handler holds in memory after findOne / create
Loaded(id, doc) ==
    [id |-> id, items |-> doc.items, version |-> doc.version,
     op |-> "", index |-> 0]

\* cart.items.findIndex(item => item.product.toString() === productId
\*                              && item.size === size), 0 for -1
ItemIndex(items, item) ==
    IF \E k \in 1..Len(items) :
            items[k].product = item.product /\ items[k].size = item.size
    THEN CHOOSE k \in 1..Len(items) :
            /\ items[k].product = item.product /\ items[k].size = item.size
            /\ \A j \in 1..(k - 1) :
                    ~(items[j].product = item.product /\ items[j].size = item.size)
    ELSE 0

\* cart.items.splice(k, 1)
Splice(items, k) == SubSeq(items, 1, k - 1) \o SubSeq(items, k + 1, Len(items))

\* cart.items.filter(item => !(same product and size))
Filter(items, item) ==
    SelectSeq(items, LAMBDA it : ~(it.product = item.product /\ it.size = item.size))

\* POST /add on the loaded cart: `quantity += quantity` of the existing
\* entry, or push of a new one.  op is the update save() will send:
\*   setQuantity  $set items.<index>.quantity, where __v is the loaded one
\*   push         $push items, $inc __v
\*   setItems     $set items, where __v is the loaded one, $inc __v
\*   ""           nothing was modified, nothing is sent
AddItem(cart, item) ==
    LET k == ItemIndex(cart.items, item)
    IN  IF k > 0
        THEN [cart EXCEPT !.items[k].quantity = @ + item.quantity,
                          !.index = k,
                          !.op = IF item.quantity = 0 THEN "" ELSE "setQuantity"]
        ELSE [cart EXCEPT !.items = Append(@, item), !.op = "push"]

\* PUT /update on the loaded cart, for an entry found at index k
UpdateItem(cart, item, k) ==
    IF item.quantity <= 0
    THEN [cart EXCEPT !.items = Splice(@, k), !.op = "setItems"]
    ELSE [cart EXCEPT !.items[k].quantity = item.quantity,
                      !.index = k,
                      !.op = IF cart.items[k].quantity = item.quantity
                             THEN "" ELSE "setQuantity"]

\* DELETE /remove on the loaded cart
RemoveItem(cart, item) ==
    LET kept == Filter(cart.items, item)
    IN  [cart EXCEPT !.items = kept,
                     !.op = IF kept = cart.items THEN "" ELSE "setItems"]

\* DELETE /clear on the loaded cart
ClearItems(cart) ==
    [cart EXCEPT !.items = <<>>,
                 !.op = IF cart.items = <<>> THEN "" ELSE "setItems"]

Unvalidated(cart) == TRUE

\* save() validates what was modified: quantity has min 1
CartValid(cart) ==
    CASE cart.op = "setQuantity" -> cart.items[cart.index].quantity >= 1
      [] cart.op = "push" -> cart.items[Len(cart.items)].quantity >= 1
      [] cart.op = "setItems" ->
            \A k \in 1..Len(cart.items) : cart.items[k].quantity >= 1
      [] OTHER -> TRUE

\* save() throws: validation, or no document matches the update (the cart
\* is gone, or the stored __v is no longer the loaded one)
CartSaveFails(cart) ==
    \/ ~CartValid(cart)
    \/ ~CartStored(cart.id)
    \/ /\ cart.op \in {"setQuantity", "setItems"}
       /\ carts[cart.id].version # cart.version

\* the stored document after the update save() sends
SavedCart(stored, cart) ==
    CASE cart.op = "push" ->
            [stored EXCEPT !.items = Append(@, cart.items[Len(cart.items)]),
                           !.version = @ + 1]
      [] cart.op = "setItems" ->
            [stored EXCEPT !.items = cart.items, !.version = @ + 1]
      [] cart.op = "setQuantity" ->
            [stored EXCEPT !.items[cart.index].quantity =
                                cart.items[cart.index].quantity]

\* the documents the model explores
CartInBounds(doc) ==
    /\ Len(doc.items) <= MaxCartItems
    /\ doc.version <= MaxCartVersion
    /\ \A k \in 1..Len(doc.items) : doc.items[k].quantity <= MaxCartQty

\* await cart.save() and the response
CartSave(r, message) ==
    LET rec == req[r]
    IN  IF rec.cart.op = ""
        THEN /\ Respond(r, rec, Res(200, "OK"))
             /\ UNCHANGED carts
        ELSE IF CartSaveFails(rec.cart)
        THEN /\ Respond(r, rec, Res(500, message))
             /\ UNCHANGED carts
        ELSE /\ CartInBounds(SavedCart(carts[rec.cart.id], rec.cart))
             /\ carts' = [carts EXCEPT ![rec.cart.id] = SavedCart(@, rec.cart)]
             /\ Respond(r, rec, Res(200, "OK"))

\* authenticate, then the handler up to its Cart.findOne
CartRequest(r, kind, token, item, in) ==
    LET rec == [Begin(kind, token, in) EXCEPT !.item = item]
    IN  IF token = NoToken
        THEN Respond(r, rec, Res(401, "Not authenticated"))
        ELSE Continue(r, [rec EXCEPT !.pc = "findCart"])

(* GET /cart *)

CartGet(r, in) ==
    /\ Admitted(r, "cartGet", in)
    /\ \E token \in in.shoppers : CartRequest(r, "cartGet", token, NoItem, in)
    /\ UNCHANGED <<products, orders, users, reviews, carts>>

CartGetFindCart(r) ==
    /\ req[r].kind = "cartGet"
    /\ req[r].pc = "findCart"
    /\ LET rec == req[r]
       IN  IF CartOf(rec.token) > 0
           THEN Respond(r, rec, Res(200, "OK"))
           ELSE Continue(r, [rec EXCEPT !.pc = "createCart"])
    /\ UNCHANGED <<products, orders, users, reviews, carts>>

CartGetCreate(r) ==
    /\ req[r].kind = "cartGet"
    /\ req[r].pc = "createCart"
    /\ LET rec == req[r]
       IN  IF DuplicateUser(rec.token)
           THEN /\ Respond(r, rec, Res(500, "Failed to fetch cart"))
                /\ UNCHANGED carts
           ELSE /\ Len(carts) < MaxCarts
                /\ carts' = Append(carts, NewCart(rec.token))
                /\ Respond(r, rec, Res(200, "OK"))
    /\ UNCHANGED <<products, orders, users, reviews>>

(* POST /cart/add *)

CartAdd(r, in) ==
    /\ Admitted(r, "cartAdd", in)
    /\ \E token \in in.shoppers, item \in in.cartItems :
            CartRequest(r, "cartAdd", token, item, in)
    /\ UNCHANGED <<products, orders, users, reviews, carts>>

CartAddFindCart(r) ==
    /\ req[r].kind = "cartAdd"
    /\ req[r].pc = "findCart"
    /\ LET rec == req[r]
           c == CartOf(rec.token)
       IN  IF c > 0
           THEN Continue(r, [rec EXCEPT !.cart = AddItem(Loaded(c, carts[c]), rec.item),
                                        !.pc = "saveCart"])
           ELSE Continue(r, [rec EXCEPT !.pc = "createCart"])
    /\ UNCHANGED <<products, orders, users, reviews, carts>>

CartAddCreate(r) ==
    /\ req[r].kind = "cartAdd"
    /\ req[r].pc = "createCart"
    /\ LET rec == req[r]
           doc == NewCart(rec.token)
       IN  IF DuplicateUser(rec.token)
           THEN /\ Respond(r, rec, Res(500, "Failed to add to cart"))
                /\ UNCHANGED carts
           ELSE /\ Len(carts) < MaxCarts
                /\ carts' = Append(carts, doc)
                /\ Continue(r, [rec EXCEPT
                        !.cart = AddItem(Loaded(Len(carts) + 1, doc), rec.item),
                        !.pc = "saveCart"])
    /\ UNCHANGED <<products, orders, users, reviews>>

CartAddSave(r) ==
    /\ req[r].kind = "cartAdd"
    /\ req[r].pc = "saveCart"
    /\ CartSave(r, "Failed to add to cart")
    /\ UNCHANGED <<products, orders, users, reviews>>

(* PUT /cart/update *)

CartUpdate(r, in) ==
    /\ Admitted(r, "cartUpdate", in)
    /\ \E token \in in.shoppers, item \in in.cartItems :
            CartRequest(r, "cartUpdate", token, item, in)
    /\ UNCHANGED <<products, orders, users, reviews, carts>>

CartUpdateFindCart(r) ==
    /\ req[r].kind = "cartUpdate"
    /\ req[r].pc = "findCart"
    /\ LET rec == req[r]
           c == CartOf(rec.token)
           k == ItemIndex(carts[c].items, rec.item)
       IN  IF c = 0
           THEN Respond(r, rec, Res(404, "Cart not found"))
           ELSE IF k = 0
           THEN Respond(r, rec, Res(200, "OK"))
           ELSE Continue(r, [rec EXCEPT
                    !.cart = UpdateItem(Loaded(c, carts[c]), rec.item, k),
                    !.pc = "saveCart"])
    /\ UNCHANGED <<products, orders, users, reviews, carts>>

CartUpdateSave(r) ==
    /\ req[r].kind = "cartUpdate"
    /\ req[r].pc = "saveCart"
    /\ CartSave(r, "Failed to update cart")
    /\ UNCHANGED <<products, orders, users, reviews>>

(* DELETE /cart/remove *)

CartRemove(r, in) ==
    /\ Admitted(r, "cartRemove", in)
    /\ \E token \in in.shoppers, item \in in.cartKeys :
            CartRequest(r, "cartRemove", token, item, in)
    /\ UNCHANGED <<products, orders, users, reviews, carts>>

CartRemoveFindCart(r) ==
    /\ req[r].kind = "cartRemove"
    /\ req[r].pc = "findCart"
    /\ LET rec == req[r]
           c == CartOf(rec.token)
       IN  IF c = 0
           THEN Respond(r, rec, Res(404, "Cart not found"))
           ELSE Continue(r, [rec EXCEPT
                    !.cart = RemoveItem(Loaded(c, carts[c]), rec.item),
                    !.pc = "saveCart"])
    /\ UNCHANGED <<products, orders, users, reviews, carts>>

CartRemoveSave(r) ==
    /\ req[r].kind = "cartRemove"
    /\ req[r].pc = "saveCart"
    /\ CartSave(r, "Failed to remove from cart")
    /\ UNCHANGED <<products, orders, users, reviews>>

(* DELETE /cart/clear *)

CartClear(r, in) ==
    /\ Admitted(r, "cartClear", in)
    /\ \E token \in in.shoppers : CartRequest(r, "cartClear", token, NoItem, in)
    /\ UNCHANGED <<products, orders, users, reviews, carts>>

CartClearFindCart(r) ==
    /\ req[r].kind = "cartClear"
    /\ req[r].pc = "findCart"
    /\ LET rec == req[r]
           c == CartOf(rec.token)
       IN  IF c = 0
           THEN Respond(r, rec, Res(200, "OK"))
           ELSE Continue(r, [rec EXCEPT
                    !.cart = ClearItems(Loaded(c, carts[c])),
                    !.pc = "saveCart"])
    /\ UNCHANGED <<products, orders, users, reviews, carts>>

CartClearSave(r) ==
    /\ req[r].kind = "cartClear"
    /\ req[r].pc = "saveCart"
    /\ CartSave(r, "Failed to clear cart")
    /\ UNCHANGED <<products, orders, users, reviews>>

----------------------------------------------------------------------------
(* User administration routes: verifyAdmin, PATCH /users/:id/role,         *)
(* DELETE /users/:id; account deletion: DELETE /profile                    *)

Roles == {"user", "admin"}

\* User.findByIdAndDelete(id)
WithoutUser(id) == [u \in DOMAIN users \ {id} |-> users[u]]

\* Order.deleteMany({ user })
DeleteOrdersOf(userId) ==
    [o \in DOMAIN orders |->
        IF orders[o].user = userId THEN RemovedOrder ELSE orders[o]]

\* Cart.deleteOne({ user })
DeleteCartOf(userId) ==
    IF CartOf(userId) = 0 THEN carts
    ELSE [carts EXCEPT ![CartOf(userId)] = RemovedCart]

(* PATCH /users/:id/role *)

UserRole(r, in) ==
    /\ Admitted(r, "userRole", in)
    /\ \E token \in in.admins, id \in in.userIds, role \in in.roles :
        LET rec == [Begin("userRole", token, in) EXCEPT !.userId = id, !.body = role]
        IN  IF token = NoToken
            THEN Respond(r, rec, Res(401, "Not authenticated"))
            ELSE Continue(r, [rec EXCEPT !.pc = "findUser"])
    /\ UNCHANGED <<products, orders, users, reviews, carts>>

UserRoleFindUser(r) ==
    /\ req[r].kind = "userRole"
    /\ req[r].pc = "findUser"
    /\ LET rec == req[r]
       IN  IF ~IsAdmin(rec.token)
           THEN Respond(r, rec, Res(403, "Not authorized"))
           ELSE IF rec.body \notin Roles
           THEN Respond(r, rec, Res(400, "Invalid role"))
           ELSE IF rec.userId = rec.token
           THEN Respond(r, rec, Res(400, "You cannot change your own role"))
           ELSE Continue(r, [rec EXCEPT !.pc = "updateUser"])
    /\ UNCHANGED <<products, orders, users, reviews, carts>>

UserRoleUpdate(r) ==
    /\ req[r].kind = "userRole"
    /\ req[r].pc = "updateUser"
    /\ LET rec == req[r]
       IN  IF rec.userId \notin DOMAIN users
           THEN /\ Respond(r, rec, Res(404, "User not found"))
                /\ UNCHANGED users
           ELSE /\ users' = [users EXCEPT ![rec.userId] = rec.body]
                /\ Respond(r, rec, Res(200, "User role updated"))
    /\ UNCHANGED <<products, orders, reviews, carts>>

(* DELETE /users/:id *)

UserDelete(r, in) ==
    /\ Admitted(r, "userDelete", in)
    /\ \E token \in in.admins, id \in in.userIds :
        LET rec == [Begin("userDelete", token, in) EXCEPT !.userId = id]
        IN  IF token = NoToken
            THEN Respond(r, rec, Res(401, "Not authenticated"))
            ELSE Continue(r, [rec EXCEPT !.pc = "findUser"])
    /\ UNCHANGED <<products, orders, users, reviews, carts>>

UserDeleteFindUser(r) ==
    /\ req[r].kind = "userDelete"
    /\ req[r].pc = "findUser"
    /\ LET rec == req[r]
       IN  IF ~IsAdmin(rec.token)
           THEN Respond(r, rec, Res(403, "Not authorized"))
           ELSE IF rec.userId = rec.token
           THEN Respond(r, rec, Res(400, "You cannot delete your own account"))
           ELSE Continue(r, [rec EXCEPT !.pc = "deleteUser"])
    /\ UNCHANGED <<products, orders, users, reviews, carts>>

UserDeleteDelete(r) ==
    /\ req[r].kind = "userDelete"
    /\ req[r].pc = "deleteUser"
    /\ LET rec == req[r]
       IN  IF rec.userId \notin DOMAIN users
           THEN /\ Respond(r, rec, Res(404, "User not found"))
                /\ UNCHANGED users
           ELSE /\ users' = WithoutUser(rec.userId)
                /\ Continue(r, [rec EXCEPT !.pc = "deleteOrders"])
    /\ UNCHANGED <<products, orders, reviews, carts>>

UserDeleteOrders(r) ==
    /\ req[r].kind = "userDelete"
    /\ req[r].pc = "deleteOrders"
    /\ orders' = DeleteOrdersOf(req[r].userId)
    /\ Continue(r, [req[r] EXCEPT !.pc = "deleteCart"])
    /\ UNCHANGED <<products, users, reviews, carts>>

UserDeleteCart(r) ==
    /\ req[r].kind = "userDelete"
    /\ req[r].pc = "deleteCart"
    /\ carts' = DeleteCartOf(req[r].userId)
    /\ Respond(r, req[r], Res(200, "User deleted successfully"))
    /\ UNCHANGED <<products, orders, users, reviews>>

(* DELETE /profile *)

Passwords == {"", "right", "wrong"}

AccountDelete(r, in) ==
    /\ Admitted(r, "accountDelete", in)
    /\ \E token \in in.shoppers, password \in in.passwords :
        LET rec == [Begin("accountDelete", token, in) EXCEPT !.body = password]
        IN  IF token = NoToken
            THEN Respond(r, rec, Res(401, "Not authenticated"))
            ELSE IF password = ""
            THEN Respond(r, rec, Res(400, "Please provide your password to confirm"))
            ELSE Continue(r, [rec EXCEPT !.pc = "findUser"])
    /\ UNCHANGED <<products, orders, users, reviews, carts>>

\* User.findById, then user.matchPassword(password)
AccountDeleteFindUser(r) ==
    /\ req[r].kind = "accountDelete"
    /\ req[r].pc = "findUser"
    /\ LET rec == req[r]
       IN  IF rec.token \notin DOMAIN users
           THEN Respond(r, rec, Res(404, "User not found"))
           ELSE IF rec.body # "right"
           THEN Respond(r, rec, Res(400, "Incorrect password"))
           ELSE Continue(r, [rec EXCEPT !.pc = "deleteCart"])
    /\ UNCHANGED <<products, orders, users, reviews, carts>>

AccountDeleteCart(r) ==
    /\ req[r].kind = "accountDelete"
    /\ req[r].pc = "deleteCart"
    /\ carts' = DeleteCartOf(req[r].token)
    /\ Continue(r, [req[r] EXCEPT !.pc = "deleteUser"])
    /\ UNCHANGED <<products, orders, users, reviews>>

AccountDeleteUser(r) ==
    /\ req[r].kind = "accountDelete"
    /\ req[r].pc = "deleteUser"
    /\ users' = WithoutUser(req[r].token)
    /\ Respond(r, req[r], Res(200, "Account deleted successfully"))
    /\ UNCHANGED <<products, orders, reviews, carts>>

----------------------------------------------------------------------------
(* Specifications of the order routes *)

\* one product with two sizes and one review of 5 stars; averageRating is
\* kept in tenths (50 is 5.0)
InitProducts ==
    {[p \in {"p1"} |-> [name |-> "n1",
                        sizes |-> <<[size |-> 9, stock |-> a],
                                    [size |-> 10, stock |-> b]>>,
                        averageRating |-> 50, totalReviews |-> 1]] :
        a \in 0..MaxStock, b \in 0..MaxStock}

\* a review as Review.create stores it: helpful 0, helpfulBy [], __v 0
FreshReview ==
    [product |-> "p1", user |-> "u1", rating |-> 5,
     helpful |-> 0, helpfulBy |-> <<>>, version |-> 0]

InitReviews == {[v \in {"rv1"} |-> FreshReview]}

InitDb(prods, revs) ==
    /\ products \in prods
    /\ orders = <<>>
    /\ users = [u \in Accounts |-> IF u = "a1" THEN "admin" ELSE "user"]
    /\ reviews \in revs
    /\ carts = <<>>
    /\ req = [r \in Slots |-> Idle]

Init == InitDb(InitProducts, InitReviews)

Step(r, in) ==
    \/ CreateOrder(r, in)
    \/ CreateOrderFindProduct(r)
    \/ CreateOrderSaveProduct(r)
    \/ CreateOrderCreate(r)
    \/ OwnerCancel(r, in)
    \/ OwnerCancelFindOrder(r)
    \/ OwnerCancelFindProduct(r)
    \/ OwnerCancelSaveProduct(r)
    \/ OwnerCancelSaveOrder(r)
    \/ AdminCancel(r, in)
    \/ AdminCancelFindUser(r)
    \/ AdminCancelFindOrder(r)
    \/ AdminCancelFindProduct(r)
    \/ AdminCancelSaveProduct(r)
    \/ AdminCancelSaveOrder(r)
    \/ AdminUpdate(r, in)
    \/ AdminUpdateFindUser(r)
    \/ AdminUpdateFindByIdAndUpdate(r)

\* requests interleaved at every await: an authenticated shopper and the
\* admin, single-item orders of one size
InterleavedInputs ==
    [policy |-> "interleaved",
     shoppers |-> {"u1"},
     admins |-> {"a1"},
     history |-> FALSE,
     bodies |-> {"valid"},
     lists |-> {<<Item("p1", 9, q)>> : q \in {-1, 1}},
     ids |-> 1..MaxOrders,
     statuses |-> OrderStatuses,
     maxOrders |-> MaxOrders,
     pricings |-> {Pricing(1, 0, 0, 1)}]

Next == \E r \in Slots : Finish(r) \/ Step(r, InterleavedInputs)

\* the interleaved requests order size 9 only: one stock level of size 10
InitInterleaved ==
    /\ Init
    /\ products["p1"].sizes[2].stock = MaxStock

Spec == InitInterleaved /\ [][Next]_vars

\* one request at a time, with every input of the routes
SerialInputs ==
    [policy |-> "serial",
     shoppers |-> Tokens,
     admins |-> Tokens \cup {Ghost},
     history |-> TRUE,
     bodies |-> {"valid", "invalid", "missing"},
     lists |-> ItemLists,
     ids |-> 1..(MaxSerialOrders + 1),
     statuses |-> StatusInputs,
     maxOrders |-> MaxSerialOrders,
     pricings |-> {Pricing(1, 0, 0, 1)}]

SerialNext == \E r \in Slots : Finish(r) \/ Step(r, SerialInputs)

SpecSerial == Init /\ [][SerialNext]_vars

\* two checkouts that overlap: both requests arrive before either is
\* answered, and their database operations interleave in any order
CheckoutInputs ==
    [policy |-> "overlap",
     shoppers |-> {NoToken, "u1"},
     history |-> TRUE,
     bodies |-> {"valid"},
     lists |-> {<<it>> : it \in Items},
     maxOrders |-> MaxReq,
     pricings |-> {Pricing(1, 0, 0, 1)}]

CheckoutNext ==
    \E r \in Slots :
        \/ CreateOrder(r, CheckoutInputs)
        \/ CreateOrderFindProduct(r)
        \/ CreateOrderSaveProduct(r)
        \/ CreateOrderCreate(r)

SpecCheckout == Init /\ [][CheckoutNext]_vars

\* two requests one after the other, nothing in between: a checkout, then
\* a cancel of the order it created
RoundTripInputs ==
    [policy |-> "pair",
     shoppers |-> {NoToken, "u1"},
     admins |-> {"a1"},
     history |-> TRUE,
     bodies |-> {"valid"},
     lists |-> ItemLists,
     ids |-> {1},
     maxOrders |-> 1,
     pricings |-> {Pricing(1, 0, 0, 1)}]

RoundTripNext ==
    \E r \in Slots :
        \/ CreateOrder(r, RoundTripInputs)
        \/ CreateOrderFindProduct(r)
        \/ CreateOrderSaveProduct(r)
        \/ CreateOrderCreate(r)
        \/ OwnerCancel(r, RoundTripInputs)
        \/ OwnerCancelFindOrder(r)
        \/ OwnerCancelFindProduct(r)
        \/ OwnerCancelSaveProduct(r)
        \/ OwnerCancelSaveOrder(r)
        \/ AdminCancel(r, RoundTripInputs)
        \/ AdminCancelFindUser(r)
        \/ AdminCancelFindOrder(r)
        \/ AdminCancelFindProduct(r)
        \/ AdminCancelSaveProduct(r)
        \/ AdminCancelSaveOrder(r)

SpecRoundTrip == Init /\ [][RoundTripNext]_vars

\* checkouts one at a time, with every pricing a request body can carry
PricingInputs ==
    [policy |-> "serial",
     shoppers |-> {NoToken, "u1"},
     history |-> TRUE,
     bodies |-> {"valid", "missing"},
     lists |-> {<<>>} \cup {<<it>> : it \in Items},
     maxOrders |-> MaxSerialOrders,
     pricings |-> Pricings]

PricingNext ==
    \E r \in Slots :
        \/ Finish(r)
        \/ CreateOrder(r, PricingInputs)
        \/ CreateOrderFindProduct(r)
        \/ CreateOrderSaveProduct(r)
        \/ CreateOrderCreate(r)

SpecPricing == Init /\ [][PricingNext]_vars

----------------------------------------------------------------------------
(* Specifications of the helpful vote *)

\* one stock level: the votes do not touch the products
InitOneProduct ==
    {prods \in InitProducts :
        \A k \in 1..Len(prods["p1"].sizes) : prods["p1"].sizes[k].stock = MaxStock}

\* votes interleaved at every await, and votes that follow an answered one
VoteInputs ==
    [policy |-> "followed",
     history |-> TRUE,
     voters |-> Tokens,
     reviewIds |-> ReviewIds]

VoteNext ==
    \E r \in Slots :
        \/ Finish(r)
        \/ Helpful(r, VoteInputs)
        \/ HelpfulFindReview(r)
        \/ HelpfulSave(r)

SpecVote == InitDb(InitOneProduct, InitReviews) /\ [][VoteNext]_vars

----------------------------------------------------------------------------
(* Specifications of the review routes *)

\* one request at a time: three authors, ratings 3 and 4, a body without
\* rating (0) and a rating out of range (6)
ReviewInputs ==
    [policy |-> "serial",
     history |-> TRUE,
     authors |-> Accounts \cup {NoToken},
     productIds |-> {"p1", "p2"},
     reviewIds |-> {ReviewIdSeq[k] : k \in 1..MaxReviews},
     ratings |-> {0, 3, 4, 6}]

ReviewStep(r, in) ==
    \/ CreateReview(r, in)
    \/ CreateReviewFindProduct(r)
    \/ CreateReviewFindExisting(r)
    \/ CreateReviewCreate(r)
    \/ CreateReviewFindReviews(r)
    \/ CreateReviewUpdateProduct(r)
    \/ UpdateReview(r, in)
    \/ UpdateReviewFindReview(r)
    \/ UpdateReviewSave(r)
    \/ UpdateReviewFindReviews(r)
    \/ UpdateReviewUpdateProduct(r)
    \/ DeleteReview(r, in)
    \/ DeleteReviewFindReview(r)
    \/ DeleteReviewDelete(r)
    \/ DeleteReviewFindReviews(r)
    \/ DeleteReviewUpdateProduct(r)

ReviewNext == \E r \in Slots : Finish(r) \/ ReviewStep(r, ReviewInputs)

SpecReview == InitDb(InitOneProduct, InitReviews) /\ [][ReviewNext]_vars

\* create-review requests interleaved at every await
ReviewRaceInputs ==
    [policy |-> "interleaved",
     history |-> TRUE,
     authors |-> UserIds,
     productIds |-> {"p1"},
     ratings |-> {3, 4}]

ReviewRaceNext ==
    \E r \in Slots :
        \/ Finish(r)
        \/ CreateReview(r, ReviewRaceInputs)
        \/ CreateReviewFindProduct(r)
        \/ CreateReviewFindExisting(r)
        \/ CreateReviewCreate(r)
        \/ CreateReviewFindReviews(r)
        \/ CreateReviewUpdateProduct(r)

SpecReviewRace == InitDb(InitOneProduct, InitReviews) /\ [][ReviewRaceNext]_vars

\* create, update and delete review requests for one product, interleaved at
\* every await
ReviewMixInputs ==
    [policy |-> "interleaved",
     history |-> FALSE,
     authors |-> UserIds,
     productIds |-> {"p1"},
     reviewIds |-> {ReviewIdSeq[k] : k \in 1..MaxReviews},
     ratings |-> {3, 4}]

ReviewMixNext == \E r \in Slots : Finish(r) \/ ReviewStep(r, ReviewMixInputs)

SpecReviewMix == InitDb(InitOneProduct, InitReviews) /\ [][ReviewMixNext]_vars

----------------------------------------------------------------------------
(* Specification of the product routes *)

\* callers of every kind, one request at a time
CatalogInputs ==
    [policy |-> "serial",
     history |-> TRUE,
     callers |-> Tokens,
     productBodies |-> {"name", "sizes", "invalid"},
     productIds |-> {"p1", "p2"},
     newProductIds |-> {"p1", "p2"}]

CatalogNext ==
    \E r \in Slots :
        \/ Finish(r)
        \/ ProductPost(r, CatalogInputs)
        \/ ProductPut(r, CatalogInputs)
        \/ ProductDelete(r, CatalogInputs)

SpecCatalog == InitDb(InitOneProduct, InitReviews) /\ [][CatalogNext]_vars

----------------------------------------------------------------------------
(* Specification of the cart routes *)

\* cart requests of one user and of a caller without token, arriving at
\* any time and interleaving at every await
CartInputs ==
    [policy |-> "interleaved",
     history |-> FALSE,
     shoppers |-> {NoToken, "u1"},
     cartItems |-> {Item("p1", s, q) : s \in {9, 10}, q \in Quantities},
     cartKeys |-> {Item("p1", s, 0) : s \in {9, 10}}]

CartStep(r, in) ==
    \/ CartGet(r, in)
    \/ CartGetFindCart(r)
    \/ CartGetCreate(r)
    \/ CartAdd(r, in)
    \/ CartAddFindCart(r)
    \/ CartAddCreate(r)
    \/ CartAddSave(r)
    \/ CartUpdate(r, in)
    \/ CartUpdateFindCart(r)
    \/ CartUpdateSave(r)
    \/ CartRemove(r, in)
    \/ CartRemoveFindCart(r)
    \/ CartRemoveSave(r)
    \/ CartClear(r, in)
    \/ CartClearFindCart(r)
    \/ CartClearSave(r)

CartNext == \E r \in Slots : Finish(r) \/ CartStep(r, CartInputs)

SpecCart == InitDb(InitOneProduct, InitReviews) /\ [][CartNext]_vars

----------------------------------------------------------------------------
(* Specification of the whole back office around stored orders *)

\* one request at a time: checkouts, cart adds, both cancels, admin status
\* updates, product edits and deletions, role changes, user deletion by an
\* admin and account deletion
BackOfficeInputs ==
    [policy |-> "serial",
     history |-> FALSE,
     shoppers |-> {NoToken, "u1"},
     admins |-> Tokens,
     callers |-> {"a1"},
     bodies |-> {"valid"},
     lists |-> {<<Item("p1", 9, 1)>>},
     ids |-> 1..MaxSerialOrders,
     statuses |-> {"shipped", "cancelled"},
     maxOrders |-> MaxSerialOrders,
     pricings |-> {Pricing(1, 0, 0, 1)},
     productBodies |-> {"sizes"},
     productIds |-> {"p1"},
     userIds |-> UserIds \cup {Ghost},
     roles |-> Roles \cup {"owner"},
     passwords |-> Passwords,
     cartItems |-> {Item("p1", 9, 1)}]

BackOfficeStep(r, in) ==
    \/ Step(r, in)
    \/ ProductPut(r, in)
    \/ ProductDelete(r, in)
    \/ CartAdd(r, in)
    \/ CartAddFindCart(r)
    \/ CartAddCreate(r)
    \/ CartAddSave(r)
    \/ UserRole(r, in)
    \/ UserRoleFindUser(r)
    \/ UserRoleUpdate(r)
    \/ UserDelete(r, in)
    \/ UserDeleteFindUser(r)
    \/ UserDeleteDelete(r)
    \/ UserDeleteOrders(r)
    \/ UserDeleteCart(r)
    \/ AccountDelete(r, in)
    \/ AccountDeleteFindUser(r)
    \/ AccountDeleteCart(r)
    \/ AccountDeleteUser(r)

BackOfficeNext == \E r \in Slots : Finish(r) \/ BackOfficeStep(r, BackOfficeInputs)

SpecBackOffice == InitDb(InitOneProduct, InitReviews) /\ [][BackOfficeNext]_vars

\* role changes, admin deletions of users and account deletions, interleaved
\* at every await
AdminsInputs ==
    [policy |-> "interleaved",
     history |-> FALSE,
     admins |-> UserIds,
     userIds |-> UserIds,
     roles |-> Roles,
     shoppers |-> UserIds,
     passwords |-> {"right", "wrong"}]

AdminsStep(r, in) ==
    \/ UserRole(r, in)
    \/ UserRoleFindUser(r)
    \/ UserRoleUpdate(r)
    \/ UserDelete(r, in)
    \/ UserDeleteFindUser(r)
    \/ UserDeleteDelete(r)
    \/ UserDeleteOrders(r)
    \/ UserDeleteCart(r)
    \/ AccountDelete(r, in)
    \/ AccountDeleteFindUser(r)
    \/ AccountDeleteCart(r)
    \/ AccountDeleteUser(r)

AdminsNext == \E r \in Slots : Finish(r) \/ AdminsStep(r, AdminsInputs)

SpecAdmins == Init /\ [][AdminsNext]_vars

----------------------------------------------------------------------------
(* Specification of cancellations after the catalog has changed *)

\* one request at a time: a checkout of up to two items, edits, deletion and
\* re-creation of the product, then the cancels
ReversalInputs ==
    [policy |-> "serial",
     history |-> TRUE,
     shoppers |-> {"u1"},
     admins |-> {"a1"},
     callers |-> {"a1"},
     bodies |-> {"valid"},
     lists |-> SeqsUpTo({Item("p1", 9, 1), Item("p1", 10, 1), Item("p1", 10, -1)},
                        MaxItems) \ {<<>>},
     ids |-> 1..MaxSerialOrders,
     maxOrders |-> MaxSerialOrders,
     pricings |-> {Pricing(1, 0, 0, 1)},
     productBodies |-> {"sizes", "soldout"},
     productIds |-> {"p1"},
     newProductIds |-> {"p1"}]

ReversalStep(r, in) ==
    \/ CreateOrder(r, in)
    \/ CreateOrderFindProduct(r)
    \/ CreateOrderSaveProduct(r)
    \/ CreateOrderCreate(r)
    \/ OwnerCancel(r, in)
    \/ OwnerCancelFindOrder(r)
    \/ OwnerCancelFindProduct(r)
    \/ OwnerCancelSaveProduct(r)
    \/ OwnerCancelSaveOrder(r)
    \/ AdminCancel(r, in)
    \/ AdminCancelFindUser(r)
    \/ AdminCancelFindOrder(r)
    \/ AdminCancelFindProduct(r)
    \/ AdminCancelSaveProduct(r)
    \/ AdminCancelSaveOrder(r)
    \/ ProductPost(r, in)
    \/ ProductPut(r, in)
    \/ ProductDelete(r, in)

ReversalNext == \E r \in Slots : Finish(r) \/ ReversalStep(r, ReversalInputs)

SpecReversal == Init /\ [][ReversalNext]_vars

----------------------------------------------------------------------------
(* Specification of checkouts and cancellations, one request at a time *)

\* checkouts of up to MaxItems items and both cancels, for up to MaxOrders
\* orders; no product edit, no status update
ConserveInputs ==
    [policy |-> "serial",
     history |-> TRUE,
     shoppers |-> {"u1"},
     admins |-> {"a1"},
     bodies |-> {"valid"},
     lists |-> SeqsUpTo({Item("p1", 9, 1), Item("p1", 9, -1), Item("p1", 10, 1)},
                        MaxItems) \ {<<>>},
     ids |-> 1..MaxOrders,
     maxOrders |-> MaxOrders,
     pricings |-> {Pricing(1, 0, 0, 1)}]

ConserveStep(r, in) ==
    \/ CreateOrder(r, in)
    \/ CreateOrderFindProduct(r)
    \/ CreateOrderSaveProduct(r)
    \/ CreateOrderCreate(r)
    \/ OwnerCancel(r, in)
    \/ OwnerCancelFindOrder(r)
    \/ OwnerCancelFindProduct(r)
    \/ OwnerCancelSaveProduct(r)
    \/ OwnerCancelSaveOrder(r)
    \/ AdminCancel(r, in)
    \/ AdminCancelFindUser(r)
    \/ AdminCancelFindOrder(r)
    \/ AdminCancelFindProduct(r)
    \/ AdminCancelSaveProduct(r)
    \/ AdminCancelSaveOrder(r)

\* a create-order request that was refused after its first item
FailedPastFirstItem ==
    \E r \in Slots :
        /\ Answered(r, "createOrder")
        /\ req[r].res.status # 201
        /\ req[r].i > 1

\* the sequences in which every create-order request either succeeds or
\* fails on its first item: nothing follows a request refused later
ConserveFinish(r) ==
    /\ ~FailedPastFirstItem
    /\ Finish(r)

ConserveNext ==
    \E r \in Slots : ConserveFinish(r) \/ ConserveStep(r, ConserveInputs)

SpecConserve == Init /\ [][ConserveNext]_vars

----------------------------------------------------------------------------
(* Specification of one order's life *)

\* what every size holds before the order is placed
ShelfStock == MaxStock - 1

InitShelves ==
    {prods \in InitProducts :
        \A k \in 1..Len(prods["p1"].sizes) : prods["p1"].sizes[k].stock = ShelfStock}

\* one request at a time: one checkout of positive quantities from shelves
\* that hold ShelfStock of every size, then cancels and status updates
GiveBackInputs ==
    [policy |-> "serial",
     history |-> TRUE,
     shoppers |-> {NoToken, "u1"},
     admins |-> {"a1"},
     bodies |-> {"valid"},
     lists |-> SeqsUpTo({Item("p1", 9, 1), Item("p1", 10, 1)}, MaxItems) \ {<<>>},
     ids |-> 1..MaxSerialOrders,
     statuses |-> OrderStatuses,
     maxOrders |-> MaxSerialOrders,
     pricings |-> {Pricing(1, 0, 0, 1)}]

GiveBackNext == \E r \in Slots : Finish(r) \/ Step(r, GiveBackInputs)

SpecGiveBack == InitDb(InitShelves, InitReviews) /\ [][GiveBackNext]_vars

----------------------------------------------------------------------------
(* Specification of cancels that overlap *)

\* a checkout of one unit, then cancels of that order by its owner and by
\* an admin, arriving at any time and interleaving at every await
CancelRaceInputs ==
    [policy |-> "interleaved",
     history |-> TRUE,
     shoppers |-> {"u1"},
     admins |-> {"a1"},
     bodies |-> {"valid"},
     lists |-> {<<Item("p1", 9, 1)>>},
     ids |-> 1..MaxSerialOrders,
     maxOrders |-> MaxSerialOrders,
     pricings |-> {Pricing(1, 0, 0, 1)}]

CancelRaceNext ==
    \E r \in Slots : Finish(r) \/ ConserveStep(r, CancelRaceInputs)

SpecCancelRace == InitDb(InitShelves, InitReviews) /\ [][CancelRaceNext]_vars

----------------------------------------------------------------------------
(* Specification of a checkout overlapping a cancellation *)

\* checkouts of one unit of size 9 and cancels of the orders, arriving at
\* any time and interleaving at every await
LostWriteInputs ==
    [policy |-> "interleaved",
     history |-> TRUE,
     shoppers |-> {"u1"},
     admins |-> {"a1"},
     bodies |-> {"valid"},
     lists |-> {<<Item("p1", 9, 1)>>},
     ids |-> 1..MaxOrders,
     maxOrders |-> MaxOrders,
     pricings |-> {Pricing(1, 0, 0, 1)}]

LostWriteNext ==
    \E r \in Slots : Finish(r) \/ ConserveStep(r, LostWriteInputs)

SpecLostWrite == InitDb(InitOneProduct, InitReviews) /\ [][LostWriteNext]_vars

----------------------------------------------------------------------------
(* Vocabulary of the properties *)

HasSize(prods, p, s) ==
    p \in DOMAIN prods /\ FindIndex(prods[p].sizes, s) # 0

StockOf(prods, p, s) == prods[p].sizes[FindIndex(prods[p].sizes, s)].stock

\* total quantity of product size (p, s) over a list of order items
RECURSIVE QuantityOf(_, _, _)
QuantityOf(items, p, s) ==
    IF items = <<>> THEN 0
    ELSE (IF Head(items).product = p /\ Head(items).size = s
          THEN Head(items).quantity ELSE 0) + QuantityOf(Tail(items), p, s)

\* the cancel request in slot r comes from a caller entitled to it
Entitled(r) ==
    \/ /\ req[r].kind = "ownerCancel"
       /\ req[r].token # NoToken
       /\ req[r].pre.orders[req[r].id].user = req[r].token
    \/ /\ req[r].kind = "adminCancel"
       /\ IsAdmin(req[r].token)

\* the order of request r is cancelled and refunded, and every product size
\* holds the stock it had when the request started plus the order's quantity
CancelledAndRestored(r) ==
    LET id == req[r].id
        pre == req[r].pre
    IN  /\ orders[id].orderStatus = "cancelled"
        /\ orders[id].paymentStatus = "refunded"
        /\ DOMAIN products = DOMAIN pre.products
        /\ \A p \in DOMAIN products : \A k \in 1..Len(products[p].sizes) :
              products[p].sizes[k].stock =
                  pre.products[p].sizes[k].stock
                      + (IF FindIndex(products[p].sizes, products[p].sizes[k].size) = k
                         THEN QuantityOf(pre.orders[id].items, p, products[p].sizes[k].size)
                         ELSE 0)

\* request r left the orders and the products as it found them
LeftUnchanged(r) ==
    /\ orders = req[r].pre.orders
    /\ products = req[r].pre.products

----------------------------------------------------------------------------
(* Properties of the order routes *)

\* a well-formed create-order request with the single item (P, S, Q), for a
\* size S that product P has
SingleItemCheckout(r) ==
    /\ Answered(r, "createOrder")
    /\ req[r].body = "valid"
    /\ Len(req[r].items) = 1
    /\ HasSize(req[r].pre.products, req[r].items[1].product, req[r].items[1].size)

\* C1: a create-order request with one item (P, S, Q), run with no other
\* request interleaved, against stock N of (P, S): if Q <= N it succeeds
\* (201, one more order) and leaves the stock at N - Q; if Q > N it fails
\* with 400 InsufficientStock reporting N, creates no order and leaves the
\* stock at N.
C1_ReserveOrRefuse ==
    \A r \in Slots : SingleItemCheckout(r) =>
        LET P == req[r].items[1].product
            S == req[r].items[1].size
            Q == req[r].items[1].quantity
            N == StockOf(req[r].pre.products, P, S)
        IN  IF Q <= N
            THEN /\ req[r].res.status = 201
                 /\ Len(orders) = Len(req[r].pre.orders) + 1
                 /\ StockOf(products, P, S) = N - Q
            ELSE /\ req[r].res.status = 400
                 /\ req[r].res.message = "Insufficient stock"
                 /\ req[r].res.available = N
                 /\ LeftUnchanged(r)

\* C1 witness: a single-item checkout of a positive quantity was answered 201
C1_Witness ==
    \E r \in Slots :
        /\ SingleItemCheckout(r)
        /\ req[r].items[1].quantity >= 1
        /\ req[r].res.status = 201

\* C2: two create-order requests that overlap, each for quantity 1 of the
\* same product size whose stock is 1, end with exactly one of them answered
\* 201 and the other one 400 InsufficientStock.
C2_OneUnitOneOrder ==
    \A a \in Slots : \A b \in Slots \ {a} :
        ( /\ SingleItemCheckout(a)
          /\ SingleItemCheckout(b)
          /\ req[a].items = req[b].items
          /\ req[a].items[1].quantity = 1
          /\ StockOf(req[a].pre.products, req[a].items[1].product, req[a].items[1].size) = 1
          /\ StockOf(req[b].pre.products, req[b].items[1].product, req[b].items[1].size) = 1 )
        => \/ /\ req[a].res.status = 201
              /\ req[b].res.status = 400
              /\ req[b].res.message = "Insufficient stock"
           \/ /\ req[b].res.status = 201
              /\ req[a].res.status = 400
              /\ req[a].res.message = "Insufficient stock"

\* a cancel request was answered for an order that existed, in status
\* `status`, when the request started, from a caller entitled to cancel it
CancelAnswered(r, kind, statuses) ==
    /\ Answered(r, kind)
    /\ req[r].id \in DOMAIN req[r].pre.orders
    /\ req[r].pre.orders[req[r].id].orderStatus \in statuses
    /\ Entitled(r)

\* C3: a cancel request (owner path by the owner, admin path by an admin)
\* for an order in processing always ends with orderStatus cancelled,
\* paymentStatus refunded and the stock of every item's product size
\* increased by the item's quantity.
C3_CancelProcessing ==
    \A r \in Slots :
        ( \/ CancelAnswered(r, "ownerCancel", {"processing"})
          \/ CancelAnswered(r, "adminCancel", {"processing"}) )
        => /\ req[r].res.status = 200
           /\ CancelledAndRestored(r)

\* C4: a successful create-order followed by a successful cancel of that
\* order, with nothing in between, leaves every product size with the stock
\* it had before the create-order.
C4_ReversalInvertsReservation ==
    ( /\ Answered(1, "createOrder")
      /\ req[1].res.status = 201
      /\ req[2].pc = "done"
      /\ req[2].kind \in {"ownerCancel", "adminCancel"}
      /\ req[2].id = req[1].id
      /\ req[2].res.status = 200 )
    => products = req[1].pre.products

\* C4 witness: an order of two items was created and then cancelled
C4_Witness ==
    /\ Answered(1, "createOrder")
    /\ req[1].res.status = 201
    /\ Len(req[1].items) = 2
    /\ req[2].pc = "done"
    /\ req[2].id = req[1].id
    /\ req[2].res.status = 200
    /\ products # req[2].pre.products

C6_OwnerCancelOnlyProcessing ==
    \A r \in Slots :
        /\ ( /\ Answered(r, "ownerCancel")
             /\ req[r].res.status = 200 )
           => /\ req[r].id \in DOMAIN req[r].pre.orders
              /\ req[r].pre.orders[req[r].id].orderStatus = "processing"
        /\ CancelAnswered(r, "ownerCancel", {"shipped", "delivered", "cancelled"})
           => /\ req[r].res.status = 400
              /\ req[r].res.message =
                    (IF req[r].pre.orders[req[r].id].orderStatus = "cancelled"
                     THEN "Order is already cancelled"
                     ELSE "Please contact support")
              /\ LeftUnchanged(r)

\* C6 witness: the owner of a shipped order asked to cancel it
C6_Witness ==
    \E r \in Slots :
        /\ CancelAnswered(r, "ownerCancel", {"shipped"})
        /\ req[r].res.status = 400

\* C7: an admin cancel succeeds exactly when the order is in processing or
\* shipped, and then the order is cancelled, refunded and its stock
\* restored; from delivered or cancelled it is answered 400 and the orders
\* and the stock are left unchanged.
C7_AdminCancelTransitions ==
    \A r \in Slots :
        /\ CancelAnswered(r, "adminCancel", {"processing", "shipped"})
           => /\ req[r].res.status = 200
              /\ CancelledAndRestored(r)
        /\ CancelAnswered(r, "adminCancel", {"delivered", "cancelled"})
           => /\ req[r].res.status = 400
              /\ LeftUnchanged(r)

\* the transitions of the order state machine
OrderTransitions ==
    {<<"processing", "shipped">>, <<"processing", "delivered">>,
     <<"processing", "cancelled">>, <<"shipped", "delivered">>,
     <<"shipped", "cancelled">>}

\* C8: a new order starts in processing, orderStatus changes only along
\* processing -> {shipped, delivered, cancelled} and shipped -> {delivered,
\* cancelled}, and the orderStatus of a delivered or cancelled order never
\* changes again.
C8_OrderStateMachine ==
    [][ /\ \A id \in DOMAIN orders' \ DOMAIN orders :
              orders'[id].orderStatus = "processing"
        /\ \A id \in DOMAIN orders \cap DOMAIN orders' :
              \/ orders'[id].orderStatus = orders[id].orderStatus
              \/ <<orders[id].orderStatus, orders'[id].orderStatus>> \in OrderTransitions
      ]_vars

----------------------------------------------------------------------------
(* Properties of the helpful vote *)

\* C9: in every reachable state, under any interleaving of helpful-toggle
\* requests, the helpful counter of a review equals the number of entries
\* of its helpfulBy.
C9_HelpfulCountsVoters ==
    \A v \in DOMAIN reviews : reviews[v].helpful = Len(reviews[v].helpfulBy)

Voters(review) == {review.helpfulBy[k] : k \in 1..Len(review.helpfulBy)}

Votes(review, u) == Cardinality({k \in 1..Len(review.helpfulBy) : review.helpfulBy[k] = u})

\* requests 1 and 2 are two votes of the same user on the same review with
\* nothing in between: the second began once the first was answered, the
\* first was saved, and its save is the only one the review saw from the
\* beginning of the first to the beginning of the second
VotedTwice ==
    /\ Answered(1, "helpful")
    /\ Answered(2, "helpful")
    /\ 1 \in req[2].after
    /\ req[1].token = req[2].token
    /\ req[1].id = req[2].id
    /\ req[1].res.status = 200
    /\ req[2].pre.reviews[req[1].id].version = req[1].pre.reviews[req[1].id].version + 1

\* C10: two consecutive helpful toggles by one user leave helpful at its
\* original count and helpfulBy at its original membership; if the user had
\* not voted, the user is in helpfulBy after the first toggle and absent
\* after the second; the user is never in helpfulBy more than once.
C10_ToggleTwice ==
    VotedTwice =>
        LET u == req[1].token
            before == req[1].pre.reviews[req[1].id]
            between == req[2].pre.reviews[req[1].id]
            after == reviews[req[1].id]
        IN  /\ req[2].res.status = 200
            /\ after.helpful = before.helpful
            /\ Voters(after) = Voters(before)
            /\ u \notin Voters(before) => u \in Voters(between) /\ u \notin Voters(after)
            /\ Votes(between, u) <= 1
            /\ Votes(after, u) <= 1

----------------------------------------------------------------------------
(* Properties of the review routes *)

ReviewKinds == {"createReview", "updateReview", "deleteReview"}

\* request r is a review request answered with success
ReviewDone(r) ==
    /\ req[r].kind \in ReviewKinds
    /\ req[r].pc = "done"
    /\ req[r].res.status \in {200, 201}

\* tenths is the mean sum / count rounded to one decimal, count > 0
IsRoundedMean(tenths, sum, count) ==
    /\ 2 * (10 * sum - tenths * count) <= count
    /\ 2 * (tenths * count - 10 * sum) <= count

\* C11: when a review create, update or delete request, run with no other
\* review request interleaved, is answered with success, the product's
\* totalReviews is the number of reviews stored for it and its averageRating
\* is the mean of their ratings rounded to one decimal, both 0 when no
\* review remains.
C11_RatingAggregated ==
    \A r \in Slots :
        ReviewDone(r) /\ req[r].productId \in DOMAIN products =>
            LET product == products[req[r].productId]
                ids == ReviewsOf(req[r].productId)
            IN  /\ product.totalReviews = Cardinality(ids)
                /\ ids = {} => product.averageRating = 0
                /\ ids # {} => IsRoundedMean(product.averageRating,
                                             SumRatings(ids), Cardinality(ids))

\* C11 witness: ratings 5, 4, 3 stood at 4.0 over 3 reviews, the review of
\* rating 3 was deleted and the product stands at 4.5 over 2 reviews
C11_Witness ==
    \E r \in Slots :
        /\ ReviewDone(r)
        /\ req[r].kind = "deleteReview"
        /\ req[r].pre.reviews[req[r].id].rating = 3
        /\ req[r].pre.products["p1"].averageRating = 40
        /\ req[r].pre.products["p1"].totalReviews = 3
        /\ products["p1"].averageRating = 45
        /\ products["p1"].totalReviews = 2

\* no two stored reviews have the same product and user
OneReviewPerPair ==
    \A v, w \in DOMAIN reviews :
        /\ reviews[v] # RemovedReview
        /\ reviews[v].product = reviews[w].product
        /\ reviews[v].user = reviews[w].user
        => v = w

\* the user of create-review request r has a stored review of its product
AlreadyReviewed(revs, r) ==
    \E v \in DOMAIN revs :
        /\ revs[v] # RemovedReview
        /\ revs[v].product = req[r].productId
        /\ revs[v].user = req[r].token

\* C12: under any interleaving of create-review requests there is at most
\* one review per (product, user) pair; a create-review by a user who
\* already has a review for the product is refused (400 or 500), and no
\* step it takes changes the reviews or the product's rating fields.
C12_OneReviewPerUser ==
    /\ [](OneReviewPerPair
          /\ \A r \in Slots :
                /\ req[r].kind = "createReview"
                /\ req[r].pc = "done"
                /\ req[r].token # NoToken
                /\ AlreadyReviewed(req[r].pre.reviews, r)
                => req[r].res.status \in {400, 500})
    /\ [][\A r \in Slots :
            /\ req[r].kind = "createReview"
            /\ req[r].pc \in {"findProduct", "findExisting", "createReview"}
            /\ AlreadyReviewed(reviews, r)
            /\ req'[r] # req[r]
            => /\ reviews' = reviews
               /\ products' = products
               /\ req'[r].pc = "done" => req'[r].res.status \in {400, 500}]_vars

\* C12 witness: of two overlapping create-review requests of one user the
\* second insert was rejected by the unique index
C12_Witness ==
    \E r, q \in Slots :
        /\ r # q
        /\ req[r].kind = "createReview" /\ req[q].kind = "createReview"
        /\ req[r].token = req[q].token
        /\ req[r].pc = "done" /\ req[r].res.status = 500
        /\ req[q].pc = "done" /\ req[q].res.status = 201

----------------------------------------------------------------------------
(* Properties of the product routes *)

\* the size values of a product, in order
SizeList(product) == [k \in 1..Len(product.sizes) |-> product.sizes[k].size]

\* this step created or deleted a product or changed a name or a sizes list
CatalogChanged ==
    \/ DOMAIN products' # DOMAIN products
    \/ \E q \in DOMAIN products \cap DOMAIN products' :
          \/ products'[q].name # products[q].name
          \/ SizeList(products'[q]) # SizeList(products[q])

\* C13: no request from a caller without the admin role (no token, or role
\* user) creates or deletes a product or changes a product's name or sizes
\* list: every step that does belongs to a request of an admin.
C13_CatalogAdminOnly ==
    [][CatalogChanged =>
          \E r \in Slots : req'[r] # req[r] /\ IsAdmin(req'[r].token)]_vars

----------------------------------------------------------------------------
(* Properties of the order routes: callers and responses *)

\* C14: an owner-cancel request on an existing order by an authenticated
\* user who is not its owner, guest orders (user = null) included, is
\* answered 403 and leaves the orders and every product's stock unchanged.
C14_OwnerCancelForbidden ==
    \A r \in Slots :
        /\ Answered(r, "ownerCancel")
        /\ req[r].token # NoToken
        /\ req[r].id \in DOMAIN req[r].pre.orders
        /\ req[r].pre.orders[req[r].id].user # req[r].token
        => /\ req[r].res.status = 403
           /\ LeftUnchanged(r)

\* request r is an admin cancel or an admin status update
AdminRequest(r) ==
    /\ req[r].kind \in {"adminCancel", "adminUpdate"}
    /\ req[r].pc = "done"

\* C15: admin-cancel and admin status-update requests from a caller with no
\* token are answered 401, from a caller whose user record is missing or
\* whose role is not admin 403; they change no order and no stock.
C15_AdminRoutesRefuse ==
    \A r \in Slots :
        (/\ AdminRequest(r)
         /\ \/ req[r].token \notin DOMAIN users
            \/ users[req[r].token] # "admin")
        => (/\ req[r].res.status = IF req[r].token = NoToken THEN 401 ELSE 403
            /\ LeftUnchanged(r))

\* C15 witness: a status update on a stored order was refused to a caller
\* whose user record is missing
C15_Witness ==
    \E r \in Slots :
        /\ AdminRequest(r)
        /\ req[r].id \in DOMAIN orders
        /\ req[r].kind = "adminUpdate"
        /\ req[r].token = Ghost
        /\ req[r].res.status = 403

\* the item at which answered create-order request r stopped
StoppedAt(r) == req[r].items[req[r].i]

\* C16: create-order answers 201 when every item is reserved, 400 when
\* items, shippingInfo or pricing is missing (nothing changed) or when an
\* item's stock is insufficient, and 404 when an item's product does not
\* resolve or has no size entry matching the item's size.
C16_CreateOrderResponses ==
    \A r \in Slots :
        Answered(r, "createOrder") /\ req[r].body \in {"valid", "missing"} =>
            \/ /\ req[r].body = "missing"
               /\ req[r].res.status = 400
               /\ LeftUnchanged(r)
            \/ /\ req[r].body = "valid"
               /\ req[r].res.status = 201
               /\ Len(orders) = Len(req[r].pre.orders) + 1
            \/ /\ req[r].body = "valid"
               /\ req[r].res.status = 404
               /\ ~HasSize(req[r].pre.products, StoppedAt(r).product, StoppedAt(r).size)
            \/ /\ req[r].body = "valid"
               /\ req[r].res.status = 400
               /\ HasSize(req[r].pre.products, StoppedAt(r).product, StoppedAt(r).size)

\* create-order request r was refused at an item (404 or 400)
RefusedAtItem(r) ==
    /\ Answered(r, "createOrder")
    /\ req[r].body # "missing"
    /\ req[r].res.status \in {400, 404}

\* C20: when item k of a create-order fails its validation (product not
\* found, size unavailable, insufficient stock), the decrements of items
\* 1..k-1 stay in place, the stock of item k and of the later items is
\* untouched and no order is created.
C20_NoRollback ==
    \A r \in Slots :
        RefusedAtItem(r) =>
            LET pre == req[r].pre
                earlier == SubSeq(req[r].items, 1, req[r].i - 1)
            IN  /\ orders = pre.orders
                /\ DOMAIN products = DOMAIN pre.products
                /\ \A p \in DOMAIN products : \A k \in 1..Len(products[p].sizes) :
                      products[p].sizes[k].stock =
                          pre.products[p].sizes[k].stock
                              - QuantityOf(earlier, p, products[p].sizes[k].size)

\* C20 witness: the second item was refused after the first one took stock
C20_Witness ==
    \E r \in Slots :
        /\ RefusedAtItem(r)
        /\ req[r].i = 2
        /\ req[r].items[1].quantity >= 1
        /\ products # req[r].pre.products

\* the pricing rule: no negative amount, and the total is the sum of the parts
PricingSound(p) ==
    /\ p.subtotal >= 0
    /\ p.shipping >= 0
    /\ p.tax >= 0
    /\ p.total >= 0
    /\ p.total = p.subtotal + p.shipping + p.tax

\* C17: every order stored by create-order has a pricing whose four amounts
\* are non-negative and whose total is subtotal + shipping + tax; a request
\* whose pricing breaks this rule stores no order.
C17_PricingSound ==
    /\ \A id \in DOMAIN orders :
            OrderStored(id) => PricingSound(orders[id].pricing)
    /\ \A r \in Slots :
            Answered(r, "createOrder") /\ ~PricingSound(req[r].pricing)
                => orders = req[r].pre.orders

----------------------------------------------------------------------------
(* Properties of the cart routes *)

\* C19: in every reachable state of interleaved get-cart, add, update,
\* remove and clear requests, no user has two carts and every entry stored
\* in a cart has quantity >= 1.
C19_CartInvariant ==
    /\ \A c, d \in DOMAIN carts :
            CartStored(c) /\ CartStored(d) /\ carts[c].user = carts[d].user
                => c = d
    /\ \A c \in DOMAIN carts :
            \A k \in 1..Len(carts[c].items) : carts[c].items[k].quantity >= 1

\* C19 witness: an add that would bring the quantity of a stored entry below
\* 1 was refused, and the cart still holds the entry
C19_Witness ==
    \E r \in Slots :
        /\ Answered(r, "cartAdd")
        /\ req[r].res.status = 500
        /\ req[r].cart.op = "setQuantity"
        /\ req[r].cart.items[req[r].cart.index].quantity < 1
        /\ CartStored(req[r].cart.id)
        /\ ItemIndex(carts[req[r].cart.id].items, req[r].item) > 0

----------------------------------------------------------------------------
(* Properties of stored orders across the whole system *)

\* C18: once an order is stored, no operation of the system removes it or
\* changes its items, its pricing or its user; only its orderStatus and
\* paymentStatus change.
C18_OrdersKept ==
    [][\A id \in DOMAIN orders :
            OrderStored(id) =>
                /\ id \in DOMAIN orders'
                /\ orders'[id] # RemovedOrder
                /\ orders'[id].items = orders[id].items
                /\ orders'[id].pricing = orders[id].pricing
                /\ orders'[id].user = orders[id].user]_vars

----------------------------------------------------------------------------
(* Properties of the stock across checkouts and cancellations *)

\* every product size of the database `before` is still there and holds at
\* most the stock it held
NoStockHigher(before) ==
    \A p \in DOMAIN before : \A k \in 1..Len(before[p].sizes) :
        /\ p \in DOMAIN products
        /\ k <= Len(products[p].sizes)
        /\ products[p].sizes[k].stock <= before[p].sizes[k].stock

\* C28: no create-order request, answered with success or with failure,
\* leaves a product size with more stock than it had before the request,
\* for every item quantity a body can carry, zero and negative included.
C28_CheckoutNeverAddsStock ==
    \A r \in Slots :
        Answered(r, "createOrder") => NoStockHigher(req[r].pre.products)

\* the order that cancel request r found holds an item whose product, or
\* whose size entry in the product, was gone when the request started
HasSkippedItem(r) ==
    LET items == req[r].pre.orders[req[r].id].items
    IN  \E k \in 1..Len(items) :
            ~HasSize(req[r].pre.products, items[k].product, items[k].size)

\* the products and their size entries are those of the database `before`
SameSizeEntries(before) ==
    /\ DOMAIN products = DOMAIN before
    /\ \A p \in DOMAIN before :
            /\ Len(products[p].sizes) = Len(before[p].sizes)
            /\ \A k \in 1..Len(before[p].sizes) :
                    products[p].sizes[k].size = before[p].sizes[k].size

\* C21: a cancel (owner or admin path) of an order holding an item whose
\* product or size entry no longer exists still succeeds: the order ends
\* cancelled and refunded, every other item's stock is increased by its
\* quantity, and no product or size entry is created for the skipped item.
C21_MissingItemSkipped ==
    \A r \in Slots :
        ( /\ \/ CancelAnswered(r, "ownerCancel", {"processing"})
             \/ CancelAnswered(r, "adminCancel", {"processing", "shipped"})
          /\ HasSkippedItem(r) )
        => ( /\ req[r].res.status = 200
             /\ SameSizeEntries(req[r].pre.products)
             /\ CancelledAndRestored(r) )

----------------------------------------------------------------------------
(* Properties of the admin status update *)

\* an admin's status update was answered for an order stored when it started
UpdateAnswered(r) ==
    /\ Answered(r, "adminUpdate")
    /\ IsAdmin(req[r].token)
    /\ req[r].id \in DOMAIN req[r].pre.orders
    /\ req[r].pre.orders[req[r].id] # RemovedOrder

\* C22: the admin status update sets orderStatus to the requested value
\* from any current status when the value is one of processing, shipped,
\* delivered, cancelled; any other value is rejected and the order left as
\* it was; nothing else changes: paymentStatus and every stock stay, also
\* when the new status is cancelled.
C22_StatusUpdateFrame ==
    \A r \in Slots :
        UpdateAnswered(r) =>
            IF req[r].orderStatus \in OrderStatuses
            THEN /\ req[r].res.status = 200
                 /\ orders = [req[r].pre.orders EXCEPT
                                 ![req[r].id].orderStatus = req[r].orderStatus]
                 /\ products = req[r].pre.products
            ELSE /\ req[r].res.status # 200
                 /\ LeftUnchanged(r)

\* C22 witness: a delivered order was set to cancelled by the status update;
\* it is still paid
C22_Witness ==
    \E r \in Slots :
        /\ UpdateAnswered(r)
        /\ req[r].pre.orders[req[r].id].orderStatus = "delivered"
        /\ req[r].orderStatus = "cancelled"
        /\ orders[req[r].id].orderStatus = "cancelled"
        /\ orders[req[r].id].paymentStatus = "paid"

\* the orders that hold their stock: stored and not cancelled
Holding(ords) ==
    {o \in DOMAIN ords : ords[o] # RemovedOrder /\ ords[o].orderStatus # "cancelled"}

\* quantity of product size (p, s) over the items of the orders in O
RECURSIVE Reserved(_, _, _, _)
Reserved(ords, O, p, s) ==
    IF O = {} THEN 0
    ELSE LET o == CHOOSE x \in O : TRUE
         IN  QuantityOf(ords[o].items, p, s) + Reserved(ords, O \ {o}, p, s)

\* stock on the shelf plus stock held by the orders that are not cancelled
Balance(prods, ords, p, s) ==
    StockOf(prods, p, s) + Reserved(ords, Holding(ords), p, s)

\* C23: with requests run one at a time (create-order requests that succeed
\* or fail on their first item, owner cancels, admin cancels; no product
\* edit, no status update), for every product size the current stock plus
\* the quantities held by the orders that are not cancelled is the initial
\* stock.  Orders start empty, so this is: every answered request leaves that
\* sum as it found it.
C23_StockConserved ==
    \A r \in Slots :
        req[r].pc = "done" /\ ~FailedPastFirstItem =>
            \A p \in DOMAIN products : \A k \in 1..Len(products[p].sizes) :
                LET s == products[p].sizes[k].size
                IN  Balance(products, orders, p, s)
                        = Balance(req[r].pre.products, req[r].pre.orders, p, s)

\* C24: with requests run one at a time (owner cancel, admin cancel, admin
\* status update), the quantity added to a product size's stock on behalf of
\* one order never exceeds the quantity the order reserved.  With one order
\* of positive quantities taken from shelves holding ShelfStock, what was
\* added is stock - (ShelfStock - reserved): no stock ever exceeds ShelfStock.
C24_GivenBackOnce ==
    \A p \in DOMAIN products : \A k \in 1..Len(products[p].sizes) :
        products[p].sizes[k].stock <= ShelfStock

\* an entitled cancel of a processing order, on either path, was answered
ProcessingCancelAnswered(r) ==
    \/ CancelAnswered(r, "ownerCancel", {"processing"})
    \/ CancelAnswered(r, "adminCancel", {"processing"})

\* C25: when two cancel requests for the same processing order run
\* concurrently, their reads and writes interleaved, at most one of them
\* succeeds and each item's quantity is added to its stock exactly once.
C25_OneCancelWins ==
    \A r1, r2 \in Slots :
        ( /\ r1 # r2
          /\ ProcessingCancelAnswered(r1)
          /\ ProcessingCancelAnswered(r2)
          /\ req[r1].id = req[r2].id )
        => ( /\ ~(req[r1].res.status = 200 /\ req[r2].res.status = 200)
             /\ CancelledAndRestored(r1) \/ CancelledAndRestored(r2) )

\* a create-order of one item answered 201 in slot c and a successful cancel
\* of another order in slot x, both answered while the other was under way,
\* both started from the same products and orders
CheckoutBesideCancel(c, x) ==
    /\ c # x
    /\ Answered(c, "createOrder")
    /\ req[c].res.status = 201
    /\ Len(req[c].items) = 1
    /\ req[x].pc = "done"
    /\ req[x].kind \in {"ownerCancel", "adminCancel"}
    /\ req[x].res.status = 200
    /\ req[x].id \in DOMAIN req[x].pre.orders
    /\ req[x].id # req[c].id
    /\ req[c].pre = req[x].pre

\* C26: when a create-order for quantity Q and a cancel of a different order
\* holding quantity R of the same product size run concurrently and both
\* succeed, the final stock of the product size is its initial stock - Q + R.
C26_NoLostStockWrite ==
    \A c, x \in Slots :
        CheckoutBesideCancel(c, x) =>
            LET item == req[c].items[1]
                R == QuantityOf(req[x].pre.orders[req[x].id].items,
                                item.product, item.size)
            IN  StockOf(products, item.product, item.size)
                    = StockOf(req[c].pre.products, item.product, item.size)
                        - item.quantity + R

\* C27: in every reachable state, every order is refunded if and only if
\* it is cancelled.
C27_RefundedIffCancelled ==
    \A id \in DOMAIN orders :
        OrderStored(id) =>
            (orders[id].paymentStatus = "refunded"
                <=> orders[id].orderStatus = "cancelled")


\* C29: once every review create, update and delete request for a product
\* has completed (no request in flight), however the requests interleaved,
\* the product's totalReviews is the number of reviews stored for it and its
\* averageRating is their mean rounded to one decimal: no slower aggregator
\* run overwrites the result of a later one.
C29_AggregateSettles ==
    (\A r \in Slots : ~InFlight(r)) =>
        \A p \in DOMAIN products :
            LET ids == ReviewsOf(p)
            IN  /\ products[p].totalReviews = Cardinality(ids)
                /\ ids = {} => products[p].averageRating = 0
                /\ ids # {} => IsRoundedMean(products[p].averageRating,
                                             SumRatings(ids), Cardinality(ids))


----------------------------------------------------------------------------
(* Properties of user administration *)

AdminExists == \E u \in DOMAIN users : users[u] = "admin"

\* slot r holds an admin's request on their own user id, past verifyAdmin
OwnIdRequest(r) ==
    /\ req[r].kind \in {"userRole", "userDelete"}
    /\ req[r].pc = "findUser"
    /\ IsAdmin(req[r].token)
    /\ req[r].userId = req[r].token

\* the step answers the admin's request on their own id with 400 and
\* writes nothing
OwnIdRejected ==
    \A r \in Slots :
        OwnIdRequest(r) /\ req'[r] # req[r] =>
            /\ req'[r].pc = "done"
            /\ req'[r].res.status = 400
            /\ UNCHANGED <<products, orders, users, reviews, carts>>

\* C30: starting with a user of role admin, after any interleaving of admin
\* role-change requests, admin delete-user requests and self-service account
\* deletions a user of role admin still exists; an admin's request to change
\* their own role or delete their own user id through the admin endpoints
\* is answered 400 and changes nothing.
C30_AdminRemains == [](AdminExists) /\ [][OwnIdRejected]_vars

\* the second half of C30 alone
OwnIdAlwaysRejected == [][OwnIdRejected]_vars

====
